---- MODULE Spec2Model ----
(***************************************************************************)
(* Tool-call argument repair and streaming rewrite of gidixi/openclaw:     *)
(*   src/src/agents/tool-args-normalizer-wrapper.ts                        *)
(*   src/unnamed/part_006   (pi-tools.read: schema aliases, normalizers)   *)
(*                                                                         *)
(* Strings that the code inspects character by character (trim, prefix     *)
(* tests, regular expressions, join) are sequences of one-character        *)
(* strings.  Property names are TLA+ strings; KeyChars gives their         *)
(* characters where the code looks at them.                                *)
(***************************************************************************)
EXTENDS Integers, Sequences, FiniteSets, TLC

(***************************************************************************)
(* JSON-like values.  t is the JavaScript kind, s the characters of a      *)
(* string (or the digits of a number), a the elements of an array, o the   *)
(* properties of an object in insertion order.                             *)
(***************************************************************************)
Undef == [t |-> "undefined", s |-> <<>>, a |-> <<>>, o |-> <<>>]

Null == [t |-> "null", s |-> <<>>, a |-> <<>>, o |-> <<>>]

Str(cs) == [t |-> "string", s |-> cs, a |-> <<>>, o |-> <<>>]

Num(cs) == [t |-> "number", s |-> cs, a |-> <<>>, o |-> <<>>]

Arr(vs) == [t |-> "array", s |-> <<>>, a |-> vs, o |-> <<>>]

Obj(ps) == [t |-> "object", s |-> <<>>, a |-> <<>>, o |-> ps]

P(key, val) == [k |-> key, v |-> val]

\* JavaScript truthiness: undefined, null, "" and 0 are falsy.
Truthy(v) ==
  CASE v.t = "undefined" -> FALSE
    [] v.t = "null" -> FALSE
    [] v.t = "string" -> v.s # <<>>
    [] v.t = "number" -> v.s # <<"0">>
    [] OTHER -> TRUE

\* typeof v === "object" (arrays and null included).
TypeofObject(v) == v.t \in {"object", "array", "null"}

IsString(v) == v.t = "string"

\* Property names of an array's indices, as {...array} produces them.
IdxKey == <<"0", "1", "2", "3">>

\* { ...record }: a shallow copy; spreading an array yields its index keys.
Spread(v) ==
  IF v.t = "array" THEN [i \in 1..Len(v.a) |-> P(IdxKey[i], v.a[i])]
  ELSE v.o

\* key in obj
In(o, key) == \E i \in DOMAIN o : o[i].k = key

\* obj[key]
Get(o, key) ==
  IF In(o, key) THEN o[CHOOSE i \in DOMAIN o : o[i].k = key].v ELSE Undef

\* obj[key] = val: an existing key keeps its position, a new key is appended.
Set(o, key, val) ==
  IF In(o, key)
  THEN [i \in DOMAIN o |-> IF o[i].k = key THEN P(key, val) ELSE o[i]]
  ELSE Append(o, P(key, val))

RECURSIVE Del(_, _)
\* delete obj[key]
Del(o, key) ==
  IF o = <<>> THEN <<>>
  ELSE IF Head(o).k = key THEN Del(Tail(o), key)
  ELSE <<Head(o)>> \o Del(Tail(o), key)

Keys(o) == {o[i].k : i \in DOMAIN o}

(***************************************************************************)
(* String helpers (String.prototype.trim, startsWith, endsWith, join).     *)
(***************************************************************************)
IsSpace(c) == c \in {" ", "\n", "\t"}

RECURSIVE TrimLeft(_)
TrimLeft(cs) ==
  IF cs = <<>> THEN <<>>
  ELSE IF IsSpace(Head(cs)) THEN TrimLeft(Tail(cs)) ELSE cs

RECURSIVE TrimRight(_)
TrimRight(cs) ==
  IF cs = <<>> THEN <<>>
  ELSE IF IsSpace(cs[Len(cs)]) THEN TrimRight(SubSeq(cs, 1, Len(cs) - 1)) ELSE cs

Trim(cs) == TrimRight(TrimLeft(cs))

StartsWith(cs, pre) ==
  Len(pre) <= Len(cs) /\ SubSeq(cs, 1, Len(pre)) = pre

EndsWith(cs, suf) ==
  Len(suf) <= Len(cs) /\ SubSeq(cs, Len(cs) - Len(suf) + 1, Len(cs)) = suf

\* String(v) for an array element, as Array.prototype.join applies it.
ElemToString(v) ==
  CASE v.t = "string" -> v.s
    [] v.t = "number" -> v.s
    [] v.t = "object" ->
         <<"[", "o", "b", "j", "e", "c", "t", " ", "O", "b", "j", "e", "c", "t", "]">>
    [] OTHER -> <<>>

RECURSIVE Join(_, _)
\* array.join(sep)
Join(vs, sep) ==
  IF vs = <<>> THEN <<>>
  ELSE IF Len(vs) = 1 THEN ElemToString(vs[1])
  ELSE ElemToString(vs[1]) \o sep \o Join(Tail(vs), sep)

RECURSIVE JsonForm(_)
\* JSON.stringify(v), up to the injective rendering of each kind: properties
\* holding undefined are omitted, undefined array elements become null, key
\* order is kept.  JSON.stringify(undefined) is undefined, not a string.
JsonForm(v) ==
  CASE v.t = "object" ->
         LET F[i \in 0..Len(v.o)] ==
               IF i = 0 THEN <<>>
               ELSE IF v.o[i].v.t = "undefined" THEN F[i - 1]
               ELSE Append(F[i - 1], P(v.o[i].k, JsonForm(v.o[i].v)))
         IN Obj(F[Len(v.o)])
    [] v.t = "array" ->
         Arr([i \in 1..Len(v.a) |->
                IF v.a[i].t = "undefined" THEN Null ELSE JsonForm(v.a[i])])
    [] OTHER -> v

RECURSIVE StructEq(_, _)
\* Structural equality of two values: same kind, same keys with structurally
\* equal values (key order is not part of the structure).
StructEq(x, y) ==
  /\ x.t = y.t
  /\ x.s = y.s
  /\ Len(x.a) = Len(y.a)
  /\ \A i \in 1..Len(x.a) : StructEq(x.a[i], y.a[i])
  /\ Keys(x.o) = Keys(y.o)
  /\ \A key \in Keys(x.o) : StructEq(Get(x.o, key), Get(y.o, key))

(***************************************************************************)
(* Characters of the property names that extractAliasesFromSchema inspects *)
(* (camelCase test, length comparison).                                    *)
(***************************************************************************)
KeyChars ==
  [path |-> <<"p", "a", "t", "h">>,
   file_path |-> <<"f", "i", "l", "e", "_", "p", "a", "t", "h">>,
   oldText |-> <<"o", "l", "d", "T", "e", "x", "t">>,
   old_string |-> <<"o", "l", "d", "_", "s", "t", "r", "i", "n", "g">>,
   newText |-> <<"n", "e", "w", "T", "e", "x", "t">>,
   new_string |-> <<"n", "e", "w", "_", "s", "t", "r", "i", "n", "g">>,
   command |-> <<"c", "o", "m", "m", "a", "n", "d">>,
   cmd |-> <<"c", "m", "d">>,
   cwd |-> <<"c", "w", "d">>,
   dir |-> <<"d", "i", "r">>,
   root |-> <<"r", "o", "o", "t">>,
   action |-> <<"a", "c", "t", "i", "o", "n">>,
   mode |-> <<"m", "o", "d", "e">>,
   raw |-> <<"r", "a", "w">>,
   url |-> <<"u", "r", "l">>,
   jobId |-> <<"j", "o", "b", "I", "d">>,
   job_id |-> <<"j", "o", "b", "_", "i", "d">>]

LowerChars ==
  {"a", "b", "c", "d", "e", "f", "g", "h", "i", "j", "k", "l", "m",
   "n", "o", "p", "q", "r", "s", "t", "u", "v", "w", "x", "y", "z"}

UpperChars ==
  {"A", "B", "C", "D", "E", "F", "G", "H", "I", "J", "K", "L", "M",
   "N", "O", "P", "Q", "R", "S", "T", "U", "V", "W", "X", "Y", "Z"}

DigitChars == {"0", "1", "2", "3", "4", "5", "6", "7", "8", "9"}

\* /^[a-z][a-zA-Z0-9]*$/.test(name)
IsCamelCase(name) ==
  LET cs == KeyChars[name] IN
  /\ cs # <<>>
  /\ cs[1] \in LowerChars
  /\ \A i \in 2..Len(cs) : cs[i] \in LowerChars \cup UpperChars \cup DigitChars

\* name.length
NameLength(name) == Len(KeyChars[name])

(***************************************************************************)
(* String literals of the code.                                            *)
(***************************************************************************)
Lit ==
  [object |-> <<"o", "b", "j", "e", "c", "t">>,
   array |-> <<"a", "r", "r", "a", "y">>,
   string |-> <<"s", "t", "r", "i", "n", "g">>,
   space |-> <<" ">>,
   cron |-> <<"c", "r", "o", "n">>,
   gateway |-> <<"g", "a", "t", "e", "w", "a", "y">>,
   browser |-> <<"b", "r", "o", "w", "s", "e", "r">>,
   web_fetch |-> <<"w", "e", "b", "_", "f", "e", "t", "c", "h">>,
   message |-> <<"m", "e", "s", "s", "a", "g", "e">>,
   start |-> <<"s", "t", "a", "r", "t">>,
   restart |-> <<"r", "e", "s", "t", "a", "r", "t">>,
   get |-> <<"g", "e", "t">>,
   get_config |-> <<"g", "e", "t", "_", "c", "o", "n", "f", "i", "g">>,
   config_get |-> <<"c", "o", "n", "f", "i", "g", ".", "g", "e", "t">>,
   schema |-> <<"s", "c", "h", "e", "m", "a">>,
   get_schema |-> <<"g", "e", "t", "_", "s", "c", "h", "e", "m", "a">>,
   config_schema |-> <<"c", "o", "n", "f", "i", "g", ".", "s", "c", "h", "e", "m", "a">>,
   apply |-> <<"a", "p", "p", "l", "y">>,
   apply_config |-> <<"a", "p", "p", "l", "y", "_", "c", "o", "n", "f", "i", "g">>,
   config_apply |-> <<"c", "o", "n", "f", "i", "g", ".", "a", "p", "p", "l", "y">>,
   patch |-> <<"p", "a", "t", "c", "h">>,
   patch_config |-> <<"p", "a", "t", "c", "h", "_", "c", "o", "n", "f", "i", "g">>,
   config_patch |-> <<"c", "o", "n", "f", "i", "g", ".", "p", "a", "t", "c", "h">>,
   update |-> <<"u", "p", "d", "a", "t", "e">>,
   run_update |-> <<"r", "u", "n", "_", "u", "p", "d", "a", "t", "e">>,
   update_run |-> <<"u", "p", "d", "a", "t", "e", ".", "r", "u", "n">>,
   act |-> <<"a", "c", "t">>,
   http___ |-> <<"h", "t", "t", "p", ":", "/", "/">>,
   https___ |-> <<"h", "t", "t", "p", "s", ":", "/", "/">>]

\* obj.key for a value that may not be an object.
Prop(v, key) == IF v.t = "object" THEN Get(v.o, key) ELSE Undef

(***************************************************************************)
(* src/unnamed/part_006                                                   *)
(***************************************************************************)
KNOWN_ALIAS_PAIRS ==
  <<[original |-> "path", alias |-> "file_path"],
    [original |-> "oldText", alias |-> "old_string"],
    [original |-> "newText", alias |-> "new_string"],
    [original |-> "command", alias |-> "cmd"]>>

RECURSIVE schemaDeepEqual(_, _)
\* a === b on two schema nodes taken from one schema document is modelled by
\* value equality: type and description are primitives there, so two equal
\* but distinct nodes compare equal along the structural path as well.
schemaDeepEqual(a, b) ==
  IF a = b THEN TRUE
  ELSE IF ~Truthy(a) \/ ~Truthy(b) \/ ~TypeofObject(a) \/ ~TypeofObject(b) THEN FALSE
  ELSE IF Prop(a, "type") # Prop(b, "type") THEN FALSE
  ELSE IF Prop(a, "description") # Prop(b, "description") THEN FALSE
  ELSE IF Prop(a, "type") = Str(Lit.object)
  THEN LET aProps == Prop(a, "properties")
           bProps == Prop(b, "properties")
       IN IF ~Truthy(aProps) \/ ~Truthy(bProps) THEN aProps = bProps
          ELSE IF Len(Spread(aProps)) # Len(Spread(bProps)) THEN FALSE
          ELSE \A key \in Keys(Spread(aProps)) :
                 schemaDeepEqual(Get(Spread(aProps), key), Get(Spread(bProps), key))
  ELSE IF Prop(a, "type") = Str(Lit.array)
  THEN schemaDeepEqual(Prop(a, "items"), Prop(b, "items"))
  ELSE TRUE

IsKnownOriginal(name) ==
  \E i \in DOMAIN KNOWN_ALIAS_PAIRS : KNOWN_ALIAS_PAIRS[i].original = name

IsKnownAlias(name) ==
  \E i \in DOMAIN KNOWN_ALIAS_PAIRS : KNOWN_ALIAS_PAIRS[i].alias = name

\* Body of the inner loop of strategy 1 for one pair with identical schemas:
\* which of propA, propB becomes the alias of the other.  The map is kept in
\* insertion order, as a JavaScript Map keeps it.
AliasDecide(aliases, propA, propB) ==
  LET aIsKnownOriginal == IsKnownOriginal(propA)
      bIsKnownOriginal == IsKnownOriginal(propB)
      aIsKnownAlias == IsKnownAlias(propA)
      bIsKnownAlias == IsKnownAlias(propB)
      aIsCamelCase == IsCamelCase(propA)
      bIsCamelCase == IsCamelCase(propB)
  IN
  IF aIsKnownOriginal /\ bIsKnownAlias THEN Set(aliases, propB, propA)
  ELSE IF bIsKnownOriginal /\ aIsKnownAlias THEN Set(aliases, propA, propB)
  ELSE IF aIsKnownAlias /\ ~bIsKnownAlias THEN Set(aliases, propA, propB)
  ELSE IF bIsKnownAlias /\ ~aIsKnownAlias THEN Set(aliases, propB, propA)
  ELSE IF aIsCamelCase /\ ~bIsCamelCase THEN Set(aliases, propB, propA)
  ELSE IF bIsCamelCase /\ ~aIsCamelCase THEN Set(aliases, propA, propB)
  ELSE IF NameLength(propA) < NameLength(propB) THEN Set(aliases, propB, propA)
  ELSE IF NameLength(propB) < NameLength(propA) THEN Set(aliases, propA, propB)
  ELSE aliases

RECURSIVE AliasPairLoop(_, _, _, _)
\* for (i = 0..) for (j = i + 1..): strategy 1 over all pairs of properties.
AliasPairLoop(properties, i, j, aliases) ==
  IF i > Len(properties) THEN aliases
  ELSE IF j > Len(properties) THEN AliasPairLoop(properties, i + 1, i + 2, aliases)
  ELSE AliasPairLoop(properties, i, j + 1,
         IF schemaDeepEqual(properties[i].v, properties[j].v)
         THEN AliasDecide(aliases, properties[i].k, properties[j].k)
         ELSE aliases)

\* Strategy 2: the known pairs that the schema declares both names of.
KnownPairFallback(properties) ==
  LET F[n \in 0..Len(KNOWN_ALIAS_PAIRS)] ==
        IF n = 0 THEN <<>>
        ELSE LET pr == KNOWN_ALIAS_PAIRS[n] IN
             IF In(properties, pr.original) /\ In(properties, pr.alias)
             THEN Set(F[n - 1], pr.alias, pr.original)
             ELSE F[n - 1]
  IN F[Len(KNOWN_ALIAS_PAIRS)]

\* The alias map, a sequence of P(alias, original) in insertion order.
extractAliasesFromSchema(tool) ==
  LET schema == IF Truthy(tool.parameters) /\ TypeofObject(tool.parameters)
                THEN tool.parameters ELSE Undef
      props == Prop(schema, "properties")
  IN
  IF ~Truthy(schema) \/ ~Truthy(props) \/ ~TypeofObject(props) THEN <<>>
  ELSE LET properties == Spread(props)
           strategy1 == AliasPairLoop(properties, 1, 2, <<>>)
       IN IF Len(strategy1) = 0 THEN KnownPairFallback(properties) ELSE strategy1

\* A rename that overwrites a target that is present.
RenameAlways(o, from, to) ==
  IF In(o, from) THEN Del(Set(o, to, Get(o, from)), from) ELSE o
\* file_path -> path and the like: rename when the target is absent.
RenameIfAbsent(o, from, to) ==
  IF In(o, from) /\ ~In(o, to) THEN Del(Set(o, to, Get(o, from)), from) ELSE o

normalizeToolParams(params) ==
  LET CmdToCommand(n) ==
        IF In(n, "cmd") /\ ~In(n, "command")
        THEN Del(IF Get(n, "cmd").t = "array"
                 THEN Set(n, "command", Str(Join(Get(n, "cmd").a, Lit.space)))
                 ELSE IF Get(n, "cmd").t = "string"
                 THEN Set(n, "command", Get(n, "cmd"))
                 ELSE n, "cmd")
        ELSE n
      DropRoot(n) == IF In(n, "root") THEN Del(n, "root") ELSE n
  IN IF ~Truthy(params) \/ ~TypeofObject(params) THEN Undef
     ELSE Obj(DropRoot(CmdToCommand(
            RenameIfAbsent(
              RenameIfAbsent(
                RenameIfAbsent(Spread(params), "file_path", "path"),
                "old_string", "oldText"),
              "new_string", "newText"))))

\* for (const [alias, original] of aliases.entries()) ...: st is the record
\* and the flag `changed`.
ApplyAliases(aliases, st) ==
  LET Step(prev, alias, original) ==
        IF In(prev.n, alias) /\ ~In(prev.n, original)
        THEN [n |-> Del(Set(prev.n, original, Get(prev.n, alias)), alias),
              changed |-> TRUE]
        ELSE prev
      F[i \in 0..Len(aliases)] ==
        IF i = 0 THEN st ELSE Step(F[i - 1], aliases[i].k, aliases[i].v)
  IN F[Len(aliases)]

\* for (const [key, value] of Object.entries(hardcodedNormalized)) ...: keys
\* the hardcoded pass added or changed are written back; none is removed.
MergeHardcoded(st, hardcoded) ==
  LET Step(prev, key, value) ==
        IF ~In(prev.n, key) \/ Get(prev.n, key) # value
        THEN [n |-> Set(prev.n, key, value), changed |-> TRUE]
        ELSE prev
      F[i \in 0..Len(hardcoded)] ==
        IF i = 0 THEN st ELSE Step(F[i - 1], hardcoded[i].k, hardcoded[i].v)
  IN F[Len(hardcoded)]

\* A tool of the registry: its name and its parameter schema (Undef when the
\* tool declares none).  NoTool is the omitted optional argument.
Tool(name, parameters) == [name |-> name, parameters |-> parameters, given |-> TRUE]

NoTool == [name |-> <<>>, parameters |-> Undef, given |-> FALSE]

normalizeToolParamsFromSchema(params, schema, tool) ==
  LET Aliases ==
        IF tool.given THEN extractAliasesFromSchema(tool)
        ELSE IF /\ Truthy(schema) /\ TypeofObject(schema)
                /\ Truthy(Prop(schema, "properties"))
        THEN extractAliasesFromSchema(
               Tool(<<"u", "n", "k", "n", "o", "w", "n">>, schema))
        ELSE <<>>
      Hardcoded(st) ==
        IF Truthy(normalizeToolParams(Obj(st.n)))
        THEN MergeHardcoded(st, normalizeToolParams(Obj(st.n)).o)
        ELSE st
      CmdIsStrings(cmdValue) ==
        /\ cmdValue.t = "array"
        /\ \A i \in DOMAIN cmdValue.a : cmdValue.a[i].t = "string"
      Cmd(st) ==
        IF In(st.n, "cmd") /\ ~In(st.n, "command")
        THEN IF CmdIsStrings(Get(st.n, "cmd"))
             THEN [n |-> Del(Set(st.n, "command",
                                 Str(Join(Get(st.n, "cmd").a, Lit.space))), "cmd"),
                   changed |-> TRUE]
             ELSE IF Get(st.n, "cmd").t = "string"
             THEN [n |-> Del(Set(st.n, "command", Get(st.n, "cmd")), "cmd"),
                   changed |-> TRUE]
             ELSE st
        ELSE st
      Root(st) ==
        IF In(st.n, "root") THEN [n |-> Del(st.n, "root"), changed |-> TRUE] ELSE st
      Result(st, aliases) ==
        IF st.changed \/ Len(aliases) > 0 THEN Obj(st.n) ELSE Undef
      Apply(aliases) ==
        Result(Root(Cmd(Hardcoded(
                 ApplyAliases(aliases, [n |-> Spread(params), changed |-> FALSE])))),
               aliases)
  IN IF ~Truthy(params) \/ ~TypeofObject(params) THEN Undef
     ELSE Apply(Aliases)

(***************************************************************************)
(* src/src/agents/tool-args-normalizer-wrapper.ts: enumerations and        *)
(* literals of normalizeToolCallArgs.                                      *)
(***************************************************************************)
CronValidActions ==
  <<<<"s", "t", "a", "t", "u", "s">>,
   <<"l", "i", "s", "t">>,
   <<"a", "d", "d">>,
   <<"u", "p", "d", "a", "t", "e">>,
   <<"r", "e", "m", "o", "v", "e">>,
   <<"r", "u", "n">>,
   <<"r", "u", "n", "s">>,
   <<"w", "a", "k", "e">>>>

CronValidWakeModes ==
  {<<"n", "o", "w">>,
   <<"n", "e", "x", "t", "-", "h", "e", "a", "r", "t", "b", "e", "a", "t">>}

CronValidRunModes ==
  {<<"d", "u", "e">>,
   <<"f", "o", "r", "c", "e">>}

GatewayValidActions ==
  {<<"r", "e", "s", "t", "a", "r", "t">>,
   <<"c", "o", "n", "f", "i", "g", ".", "g", "e", "t">>,
   <<"c", "o", "n", "f", "i", "g", ".", "s", "c", "h", "e", "m", "a">>,
   <<"c", "o", "n", "f", "i", "g", ".", "a", "p", "p", "l", "y">>,
   <<"c", "o", "n", "f", "i", "g", ".", "p", "a", "t", "c", "h">>,
   <<"u", "p", "d", "a", "t", "e", ".", "r", "u", "n">>}

BrowserValidActions ==
  {<<"s", "t", "a", "t", "u", "s">>,
   <<"s", "t", "a", "r", "t">>,
   <<"s", "t", "o", "p">>,
   <<"p", "r", "o", "f", "i", "l", "e", "s">>,
   <<"t", "a", "b", "s">>,
   <<"o", "p", "e", "n">>,
   <<"f", "o", "c", "u", "s">>,
   <<"c", "l", "o", "s", "e">>,
   <<"s", "n", "a", "p", "s", "h", "o", "t">>,
   <<"s", "c", "r", "e", "e", "n", "s", "h", "o", "t">>,
   <<"n", "a", "v", "i", "g", "a", "t", "e">>,
   <<"c", "o", "n", "s", "o", "l", "e">>,
   <<"p", "d", "f">>,
   <<"u", "p", "l", "o", "a", "d">>,
   <<"d", "i", "a", "l", "o", "g">>,
   <<"a", "c", "t">>}

BrowserActKinds ==
  {<<"c", "l", "i", "c", "k">>,
   <<"t", "y", "p", "e">>,
   <<"p", "r", "e", "s", "s">>,
   <<"h", "o", "v", "e", "r">>,
   <<"d", "r", "a", "g">>,
   <<"s", "e", "l", "e", "c", "t">>,
   <<"f", "i", "l", "l">>,
   <<"r", "e", "s", "i", "z", "e">>,
   <<"w", "a", "i", "t">>,
   <<"e", "v", "a", "l", "u", "a", "t", "e">>}

BrowserValidSnapshotModes ==
  {<<"e", "f", "f", "i", "c", "i", "e", "n", "t">>}

BrowserValidImageTypes ==
  {<<"p", "n", "g">>,
   <<"j", "p", "e", "g">>}

MessageValidActions ==
  {<<"s", "e", "n", "d">>,
   <<"b", "r", "o", "a", "d", "c", "a", "s", "t">>,
   <<"p", "o", "l", "l">>,
   <<"r", "e", "a", "c", "t">>,
   <<"r", "e", "a", "c", "t", "i", "o", "n", "s">>,
   <<"r", "e", "a", "d">>,
   <<"e", "d", "i", "t">>,
   <<"u", "n", "s", "e", "n", "d">>,
   <<"r", "e", "p", "l", "y">>,
   <<"s", "e", "n", "d", "W", "i", "t", "h", "E", "f", "f", "e", "c", "t">>,
   <<"r", "e", "n", "a", "m", "e", "G", "r", "o", "u", "p">>,
   <<"s", "e", "t", "G", "r", "o", "u", "p", "I", "c", "o", "n">>,
   <<"a", "d", "d", "P", "a", "r", "t", "i", "c", "i", "p", "a", "n", "t">>,
   <<"r", "e", "m", "o", "v", "e", "P", "a", "r", "t", "i", "c", "i", "p", "a", "n", "t">>,
   <<"l", "e", "a", "v", "e", "G", "r", "o", "u", "p">>,
   <<"s", "e", "n", "d", "A", "t", "t", "a", "c", "h", "m", "e", "n", "t">>,
   <<"d", "e", "l", "e", "t", "e">>,
   <<"p", "i", "n">>,
   <<"u", "n", "p", "i", "n">>,
   <<"l", "i", "s", "t", "-", "p", "i", "n", "s">>,
   <<"p", "e", "r", "m", "i", "s", "s", "i", "o", "n", "s">>,
   <<"t", "h", "r", "e", "a", "d", "-", "c", "r", "e", "a", "t", "e">>,
   <<"t", "h", "r", "e", "a", "d", "-", "l", "i", "s", "t">>,
   <<"t", "h", "r", "e", "a", "d", "-", "r", "e", "p", "l", "y">>,
   <<"s", "e", "a", "r", "c", "h">>,
   <<"s", "t", "i", "c", "k", "e", "r">>,
   <<"s", "t", "i", "c", "k", "e", "r", "-", "s", "e", "a", "r", "c", "h">>,
   <<"m", "e", "m", "b", "e", "r", "-", "i", "n", "f", "o">>,
   <<"r", "o", "l", "e", "-", "i", "n", "f", "o">>,
   <<"e", "m", "o", "j", "i", "-", "l", "i", "s", "t">>,
   <<"e", "m", "o", "j", "i", "-", "u", "p", "l", "o", "a", "d">>,
   <<"s", "t", "i", "c", "k", "e", "r", "-", "u", "p", "l", "o", "a", "d">>,
   <<"r", "o", "l", "e", "-", "a", "d", "d">>,
   <<"r", "o", "l", "e", "-", "r", "e", "m", "o", "v", "e">>,
   <<"c", "h", "a", "n", "n", "e", "l", "-", "i", "n", "f", "o">>,
   <<"c", "h", "a", "n", "n", "e", "l", "-", "l", "i", "s", "t">>,
   <<"c", "h", "a", "n", "n", "e", "l", "-", "c", "r", "e", "a", "t", "e">>,
   <<"c", "h", "a", "n", "n", "e", "l", "-", "e", "d", "i", "t">>,
   <<"c", "h", "a", "n", "n", "e", "l", "-", "d", "e", "l", "e", "t", "e">>,
   <<"c", "h", "a", "n", "n", "e", "l", "-", "m", "o", "v", "e">>,
   <<"c", "a", "t", "e", "g", "o", "r", "y", "-", "c", "r", "e", "a", "t", "e">>,
   <<"c", "a", "t", "e", "g", "o", "r", "y", "-", "e", "d", "i", "t">>,
   <<"c", "a", "t", "e", "g", "o", "r", "y", "-", "d", "e", "l", "e", "t", "e">>,
   <<"v", "o", "i", "c", "e", "-", "s", "t", "a", "t", "u", "s">>,
   <<"e", "v", "e", "n", "t", "-", "l", "i", "s", "t">>,
   <<"e", "v", "e", "n", "t", "-", "c", "r", "e", "a", "t", "e">>,
   <<"t", "i", "m", "e", "o", "u", "t">>,
   <<"k", "i", "c", "k">>,
   <<"b", "a", "n">>,
   <<"s", "e", "t", "-", "p", "r", "e", "s", "e", "n", "c", "e">>}


SeqRange(q) == {q[i] : i \in DOMAIN q}

\* value contains `word` delimited on each side by "_", "-" or the string's
\* end: new RegExp(`(^|[_-])${action}([_-]|$)`).test(value)
WordBoundaryMatch(value, word) ==
  \E i \in 1..(Len(value) - Len(word) + 1) :
    /\ SubSeq(value, i, i + Len(word) - 1) = word
    /\ (i = 1 \/ value[i - 1] \in {"_", "-"})
    /\ (i + Len(word) - 1 = Len(value) \/ value[i + Len(word)] \in {"_", "-"})

\* The first of the valid actions among those at the given indices, or Null.
FirstAction(hits) ==
  IF hits = {} THEN Null
  ELSE Str(CronValidActions[CHOOSE i \in hits : \A j \in hits : i <= j])

\* cron: the action named by, or embedded in, a string (null when none).
extractAction(value) ==
  IF value \in SeqRange(CronValidActions) THEN Str(value)
  ELSE LET Prefixed == {i \in DOMAIN CronValidActions :
                          \/ StartsWith(value, CronValidActions[i] \o <<"-">>)
                          \/ StartsWith(value, CronValidActions[i] \o <<"_">>)}
           Embedded == {i \in DOMAIN CronValidActions :
                          WordBoundaryMatch(value, CronValidActions[i])}
       IN IF Prefixed # {} THEN FirstAction(Prefixed)
          ELSE FirstAction(Embedded)

\* A record under repair: the copy being edited and the flag `changed`.
St(n, changed) == [n |-> n, changed |-> changed]

\* cron, priority 1: mode -> action.
CronFromMode(st) ==
  LET modeValue == Get(st.n, "mode") IN
  IF In(st.n, "mode") /\ ~In(st.n, "action") /\ IsString(modeValue)
  THEN IF /\ modeValue.s \in SeqRange(CronValidActions)
          /\ modeValue.s \notin CronValidWakeModes
          /\ modeValue.s \notin CronValidRunModes
       THEN St(Del(Set(st.n, "action", modeValue), "mode"), TRUE)
       ELSE LET extracted == extractAction(modeValue.s) IN
            IF Truthy(extracted)
            THEN St(Del(Set(st.n, "action", extracted), "mode"), TRUE)
            ELSE st
  ELSE st

\* cron, priority 2: id -> action.
CronFromId(st) ==
  LET idValue == Get(st.n, "id") IN
  IF In(st.n, "id") /\ ~In(st.n, "action") /\ IsString(idValue)
  THEN IF idValue.s \in SeqRange(CronValidActions)
       THEN St(Del(Set(st.n, "action", idValue), "id"), TRUE)
       ELSE LET extracted == extractAction(idValue.s) IN
            IF Truthy(extracted)
            THEN St(Del(Set(st.n, "action", extracted), "id"), TRUE)
            ELSE st
  ELSE st

\* The cron block (2.5); entered only when the record has no action.
CronRules(record) == CronFromId(CronFromMode(St(record, FALSE)))

\* gateway: a valid action, or the valid action a common misnaming stands for.
normalizeActionValue(value) ==
  IF value \in GatewayValidActions THEN Str(value)
  ELSE IF value = Lit.start THEN Str(Lit.restart)
  ELSE IF value = Lit.get \/ value = Lit.get_config THEN Str(Lit.config_get)
  ELSE IF value = Lit.schema \/ value = Lit.get_schema THEN Str(Lit.config_schema)
  ELSE IF value = Lit.apply \/ value = Lit.apply_config THEN Str(Lit.config_apply)
  ELSE IF value = Lit.patch \/ value = Lit.patch_config THEN Str(Lit.config_patch)
  ELSE IF value = Lit.update \/ value = Lit.run_update THEN Str(Lit.update_run)
  ELSE Null

\* "action" in normalized && typeof normalized.action === "string"
\*   ? normalized.action.trim() : null
CurrentAction(n) ==
  IF In(n, "action") /\ IsString(Get(n, "action"))
  THEN Str(Trim(Get(n, "action").s)) ELSE Null

\* gateway: take the action from a donor field; raw is kept, mode and type
\* are removed.
GatewayFromDonor(st, field, keepDonor) ==
  LET value == Get(st.n, field)
      normalizedAction == IF IsString(value) THEN normalizeActionValue(Trim(value.s))
                          ELSE Null
  IN IF In(st.n, field) /\ IsString(value) /\ Truthy(normalizedAction)
     THEN St(IF keepDonor THEN Set(st.n, "action", normalizedAction)
             ELSE Del(Set(st.n, "action", normalizedAction), field), TRUE)
     ELSE st

\* The gateway block (2.6).
GatewayRules(record) ==
  LET hasValidAction == /\ CurrentAction(record) # Null
                        /\ CurrentAction(record).s # <<>>
                        /\ CurrentAction(record).s \in GatewayValidActions
      Clean(st) == IF In(st.n, "action") THEN St(Del(st.n, "action"), TRUE) ELSE st
      Raw(st) == IF In(st.n, "raw") THEN GatewayFromDonor(st, "raw", TRUE) ELSE st
      Mode(st) == IF ~In(st.n, "action") /\ In(st.n, "mode")
                  THEN GatewayFromDonor(st, "mode", FALSE) ELSE st
      Type(st) == IF ~In(st.n, "action") /\ In(st.n, "type")
                  THEN GatewayFromDonor(st, "type", FALSE) ELSE st
  IN IF hasValidAction THEN St(record, FALSE)
     ELSE Type(Mode(Raw(Clean(St(record, FALSE)))))

\* Lower-case image of the characters of "HTTPS" (the /i flag of looksLikeUrl).
LowerOf(c) ==
  CASE c = "H" -> "h" [] c = "T" -> "t" [] c = "P" -> "p" [] c = "S" -> "s"
    [] OTHER -> c

\* /^https?:\/\//i.test(value.trim())
looksLikeUrl(value) ==
  LET t == Trim(value)
      lower == [i \in DOMAIN t |-> LowerOf(t[i])]
  IN StartsWith(lower, Lit.http___) \/ StartsWith(lower, Lit.https___)

(***************************************************************************)
(* The browser block (2.7).  normalized is a shallow copy, so the object   *)
(* held by normalized.request is the caller's own request object until the *)
(* block assigns a new one: `shared` records that, and inReq is the        *)
(* caller's request object as the block's writes leave it.                 *)
(***************************************************************************)
BSt(n, changed, shared, inReq) ==
  [n |-> n, changed |-> changed, shared |-> shared, inReq |-> inReq]

\* normalized.action = "act"; ensure normalized.request is an object; set
\* request.kind unless present.
WrapActKind(st, kind) ==
  LET n1 == Set(st.n, "action", Str(Lit.act))
      old == Get(n1, "request")
      fresh == ~In(n1, "request") \/ ~Truthy(old) \/ ~TypeofObject(old)
      request == IF fresh THEN Obj(<<>>) ELSE old
      shared == st.shared /\ ~fresh
      \* a property written on an array is not one of its elements
      request2 == IF request.t = "object" /\ ~In(request.o, "kind")
                  THEN Obj(Set(request.o, "kind", Str(kind)))
                  ELSE request
  IN BSt(Set(n1, "request", request2), TRUE, shared,
         IF shared THEN request2 ELSE st.inReq)

\* Priority 1: inputRef -> targetUrl.
BrowserInputRef(st) ==
  LET inputRefValue == Get(st.n, "inputRef")
      trimmed == Trim(inputRefValue.s)
  IN IF In(st.n, "inputRef") /\ IsString(inputRefValue) /\ trimmed # <<>>
     THEN IF looksLikeUrl(trimmed) \/ ~In(st.n, "targetUrl")
          THEN [st EXCEPT !.n = Set(st.n, "targetUrl", Str(trimmed)), !.changed = TRUE]
          ELSE st
     ELSE st

BrowserAction(st, currentAction, hasValidAction, hasBrowserActKind) ==
  IF hasBrowserActKind /\ Truthy(currentAction)
  THEN WrapActKind(st, currentAction.s)
  ELSE IF In(st.n, "action") /\ ~hasValidAction /\ ~hasBrowserActKind
  THEN [st EXCEPT !.n = Del(st.n, "action"), !.changed = TRUE]
  ELSE st

BrowserRef(st) ==
  LET refValue == Get(st.n, "ref")
      trimmed == Trim(refValue.s)
  IN IF In(st.n, "ref") /\ IsString(refValue)
     THEN IF trimmed \in BrowserValidActions
          THEN [st EXCEPT !.n = Set(st.n, "action", Str(trimmed)), !.changed = TRUE]
          ELSE IF trimmed \in BrowserActKinds THEN WrapActKind(st, trimmed)
          ELSE st
     ELSE st

BrowserRequestKind(st) ==
  LET requestValue == Get(st.n, "request")
      hasKind == /\ Truthy(requestValue) /\ requestValue.t = "object"
                 /\ In(requestValue.o, "kind")
      requestKind == Get(requestValue.o, "kind")
      trimmed == Trim(requestKind.s)
  IN IF /\ ~In(st.n, "action") /\ In(st.n, "request") /\ hasKind
        /\ IsString(requestKind) /\ trimmed \in BrowserValidActions
     THEN LET n1 == Set(st.n, "action", Str(trimmed)) IN
          IF Len(requestValue.o) = 1
          THEN [st EXCEPT !.n = Del(n1, "request"), !.changed = TRUE]
          ELSE LET request2 == Obj(Del(requestValue.o, "kind")) IN
               BSt(Set(n1, "request", request2), TRUE, st.shared,
                   IF st.shared THEN request2 ELSE st.inReq)
     ELSE st

BrowserType(st) ==
  LET typeValue == Get(st.n, "type")
      trimmed == Trim(typeValue.s)
  IN IF ~In(st.n, "action") /\ In(st.n, "type") /\ IsString(typeValue)
     THEN IF trimmed \in BrowserValidActions
          THEN [st EXCEPT !.n = Del(Set(st.n, "action", Str(trimmed)), "type"),
                          !.changed = TRUE]
          ELSE IF trimmed \in BrowserActKinds
          THEN LET w == WrapActKind(st, trimmed) IN [w EXCEPT !.n = Del(w.n, "type")]
          ELSE IF looksLikeUrl(trimmed)
          THEN [st EXCEPT !.n = Del(IF ~In(st.n, "targetUrl")
                                    THEN Set(st.n, "targetUrl", Str(trimmed))
                                    ELSE st.n, "type"),
                          !.changed = TRUE]
          ELSE IF trimmed \notin BrowserValidImageTypes
          THEN [st EXCEPT !.n = Del(st.n, "type"), !.changed = TRUE]
          ELSE st
     ELSE st

BrowserMode(st) ==
  LET modeValue == Get(st.n, "mode")
      trimmed == Trim(modeValue.s)
  IN IF /\ ~In(st.n, "action") /\ In(st.n, "mode") /\ IsString(modeValue)
        /\ trimmed \in BrowserValidActions
        /\ trimmed \notin BrowserValidSnapshotModes
     THEN [st EXCEPT !.n = Del(Set(st.n, "action", Str(trimmed)), "mode"),
                     !.changed = TRUE]
     ELSE st

\* Final clean-up of a type that is neither an image type nor an action.
BrowserTypeCleanup(st) ==
  LET typeVal == Get(st.n, "type") IN
  IF /\ In(st.n, "type") /\ IsString(typeVal)
     /\ typeVal.s \notin BrowserValidImageTypes
     /\ typeVal.s \notin BrowserValidActions
  THEN [st EXCEPT !.n = Del(st.n, "type"), !.changed = TRUE]
  ELSE st

BrowserRules(record) ==
  LET NullTarget(st) ==
        IF In(st.n, "target") /\ Get(st.n, "target").t \in {"null", "undefined"}
        THEN [st EXCEPT !.n = Del(st.n, "target"), !.changed = TRUE]
        ELSE st
      HasValidAction(currentAction) ==
        /\ currentAction # Null
        /\ currentAction.s # <<>>
        /\ currentAction.s \in BrowserValidActions
      HasBrowserActKind(currentAction) ==
        currentAction # Null /\ currentAction.s \in BrowserActKinds
      \* if (!hasValidAction) { ... }: fromDonors is what the donor rules make
      \* of st
      Action(st, fromDonors) ==
        IF HasValidAction(CurrentAction(st.n)) THEN st ELSE fromDonors
      Donors(st) ==
        Action(st,
               BrowserMode(BrowserType(BrowserRequestKind(BrowserRef(
                 BrowserAction(st, CurrentAction(st.n), FALSE,
                               HasBrowserActKind(CurrentAction(st.n))))))))
  IN BrowserTypeCleanup(Donors(BrowserInputRef(NullTarget(
       BSt(record, FALSE, TRUE, Get(record, "request"))))))

(***************************************************************************)
(* The web_fetch block (2.8).                                              *)
(***************************************************************************)
\* A donor field whose trimmed, non-empty string value becomes url; inputRef
\* and address are used only when they look like a URL.
WebFetchDonor(st, field, urlOnly) ==
  LET value == Get(st.n, field)
      trimmed == Trim(value.s)
  IN IF /\ In(st.n, field) /\ IsString(value) /\ trimmed # <<>>
        /\ (urlOnly => looksLikeUrl(trimmed))
     THEN St(Del(Set(st.n, "url", Str(trimmed)), field), TRUE)
     ELSE st

\* Priority 6: the first property, in insertion order, holding a URL.
WebFetchAnyUrl(st) ==
  LET IsUrlAt(i) == /\ IsString(st.n[i].v) /\ Trim(st.n[i].v.s) # <<>>
                    /\ looksLikeUrl(Trim(st.n[i].v.s))
  IN IF \E i \in DOMAIN st.n : IsUrlAt(i)
     THEN LET i == CHOOSE i \in DOMAIN st.n :
                     IsUrlAt(i) /\ \A j \in 1..(i - 1) : ~IsUrlAt(j)
          IN St(Del(Set(st.n, "url", Str(Trim(st.n[i].v.s))), st.n[i].k), TRUE)
     ELSE st

WebFetchRules(record) ==
  LET CurrentUrl(url) ==
        IF In(record, "url") /\ IsString(url) THEN Str(Trim(url.s)) ELSE Null
      HasValidUrl(currentUrl) ==
        /\ currentUrl # Null /\ currentUrl.s # <<>>
        /\ looksLikeUrl(currentUrl.s)
      Clean(st) == IF In(st.n, "url") THEN St(Del(st.n, "url"), TRUE) ELSE st
      Donor(st, field, urlOnly) ==
        IF ~In(st.n, "url") THEN WebFetchDonor(st, field, urlOnly) ELSE st
      AnyUrl(st) == IF ~In(st.n, "url") THEN WebFetchAnyUrl(st) ELSE st
  IN IF HasValidUrl(CurrentUrl(Get(record, "url"))) THEN St(record, FALSE)
     ELSE AnyUrl(
            Donor(
              Donor(
                Donor(
                  Donor(WebFetchDonor(Clean(St(record, FALSE)), "targetUrl", FALSE),
                        "inputRef", TRUE),
                  "href", FALSE),
                "link", FALSE),
              "address", TRUE))

(***************************************************************************)
(* The message block (2.9).                                                *)
(***************************************************************************)
\* type / mode -> action (donor removed), ref -> action (donor kept).
MessageActionDonor(st, field, keepDonor) ==
  LET value == Get(st.n, field)
      trimmed == Trim(value.s)
  IN IF In(st.n, field) /\ IsString(value) /\ trimmed \in MessageValidActions
     THEN St(IF keepDonor THEN Set(st.n, "action", Str(trimmed))
             ELSE Del(Set(st.n, "action", Str(trimmed)), field), TRUE)
     ELSE st

MessageAction(st0) ==
  LET HasValidAction(currentAction) ==
        /\ currentAction # Null /\ currentAction.s # <<>>
        /\ currentAction.s \in MessageValidActions
      Clean(st) == IF In(st.n, "action") THEN St(Del(st.n, "action"), TRUE) ELSE st
      Donor(st, field, keepDonor) ==
        IF ~In(st.n, "action") THEN MessageActionDonor(st, field, keepDonor) ELSE st
  IN IF HasValidAction(CurrentAction(st0.n)) THEN st0
     ELSE Donor(Donor(MessageActionDonor(Clean(st0), "type", FALSE), "mode", FALSE),
                "ref", TRUE)

\* text: a non-empty value always becomes message; an empty one only when
\* message is absent.
MessageFromText(st) ==
  LET textValue == Get(st.n, "text")
      trimmed == Trim(textValue.s)
  IN IF In(st.n, "text") /\ IsString(textValue)
     THEN IF trimmed # <<>>
          THEN St(Del(Set(st.n, "message", Str(trimmed)), "text"), TRUE)
          ELSE IF ~In(st.n, "message")
          THEN St(Del(Set(st.n, "message", Str(<<>>)), "text"), TRUE)
          ELSE st
     ELSE st

\* content / body / msg: the trimmed value (possibly empty) becomes message.
MessageFromField(st, field) ==
  LET value == Get(st.n, field) IN
  IF ~In(st.n, "message") /\ In(st.n, field) /\ IsString(value)
  THEN St(Del(Set(st.n, "message", Str(Trim(value.s))), field), TRUE)
  ELSE st

MessageEmptyForMedia(st) ==
  LET Has(field) == In(st.n, field) /\ Truthy(Get(st.n, field))
      hasMedia == Has("media") \/ Has("path") \/ Has("filePath") \/ Has("buffer")
      hasCard == Has("card")
  IN IF ~In(st.n, "message") /\ (hasMedia \/ hasCard)
     THEN St(Set(st.n, "message", Str(<<>>)), TRUE)
     ELSE st

MessageText(st0) ==
  LET CurrentMessage(message) ==
        IF In(st0.n, "message") /\ IsString(message)
        THEN Str(Trim(message.s)) ELSE Null
      HasValidMessage(currentMessage) ==
        currentMessage # Null /\ currentMessage.s # <<>>
      Clean(st) == IF In(st.n, "message") THEN St(Del(st.n, "message"), TRUE) ELSE st
  IN IF HasValidMessage(CurrentMessage(Get(st0.n, "message"))) THEN st0
     ELSE MessageEmptyForMedia(
            MessageFromField(
              MessageFromField(
                MessageFromField(MessageFromText(Clean(st0)), "content"),
                "body"),
              "msg"))

\* to -> target
MessageToTarget(st) ==
  LET toValue == Get(st.n, "to") IN
  IF /\ In(st.n, "to") /\ ~In(st.n, "target")
     /\ IsString(toValue) /\ Trim(toValue.s) # <<>>
  THEN St(Del(Set(st.n, "target", Str(Trim(toValue.s))), "to"), TRUE)
  ELSE st

RECURSIVE StripTrailing(_, _)
\* value.replace(/c+$/, "")
StripTrailing(cs, c) ==
  IF cs # <<>> /\ cs[Len(cs)] = c THEN StripTrailing(SubSeq(cs, 1, Len(cs) - 1), c)
  ELSE cs

\* /^\d+$/.test(value)
AllDigits(cs) == cs # <<>> /\ \A i \in DOMAIN cs : cs[i] \in DigitChars

\* Shortest length a stripped numeric identifier must have to be kept.
MinTargetDigits == 7

\* One iteration of `for (const field of targetFields)`: tg holds the
\* record, targetValue, wasStripped and changed.
MessageTargetField(st, field) ==
  LET Strip(tg, marker, cleaned) ==
        IF EndsWith(tg.t, marker) /\ cleaned # tg.t
        THEN [n |-> Set(tg.n, field, Str(cleaned)), t |-> cleaned,
              wasStripped |-> TRUE, changed |-> TRUE]
        ELSE tg
      StripQuestionMarks(tg) ==
        Strip(tg, <<"?">>, Trim(StripTrailing(tg.t, "?")))
      StripDots(tg) ==
        Strip(tg, <<".", ".", ".">>, Trim(StripTrailing(tg.t, ".")))
      Truncated(tg) ==
        IF tg.wasStripped /\ AllDigits(tg.t) /\ Len(tg.t) < MinTargetDigits
        THEN [tg EXCEPT !.n = Del(tg.n, field), !.changed = TRUE]
        ELSE tg
      Empty(tg) ==
        IF /\ In(tg.n, field) /\ IsString(Get(tg.n, field))
           /\ Trim(Get(tg.n, field).s) = <<>>
        THEN St(Del(tg.n, field), TRUE)
        ELSE St(tg.n, tg.changed)
  IN IF In(st.n, field) /\ IsString(Get(st.n, field))
     THEN Empty(Truncated(StripDots(StripQuestionMarks(
            [n |-> st.n, t |-> Trim(Get(st.n, field).s),
             wasStripped |-> FALSE, changed |-> st.changed]))))
     ELSE st

MessageRules(record) ==
  MessageTargetField(
    MessageTargetField(
      MessageToTarget(MessageText(MessageAction(St(record, FALSE)))),
      "target"),
    "to")

(***************************************************************************)
(* normalizeToolCallArgs                                                   *)
(***************************************************************************)
\* tools?.find((t) => t.name === name); NoTool when there is none.  A
\* registry that is absent behaves as an empty one.
FindTool(tools, name) ==
  IF \E i \in DOMAIN tools : tools[i].name = name
  THEN tools[CHOOSE i \in DOMAIN tools :
               tools[i].name = name /\ \A j \in 1..(i - 1) : tools[j].name # name]
  ELSE NoTool

\* What a call leaves behind: ret is the returned record (Undef for
\* `undefined`), arg the caller's argument value after the call, shared
\* whether ret.request is the very object arg.request is.
Ret(ret, arg, shared) == [ret |-> ret, arg |-> arg, shared |-> shared]

\* Step 1: { name, arguments } envelope.
IsEnvelope(record) ==
  /\ In(record, "name") /\ IsString(Get(record, "name"))
  /\ In(record, "arguments")
  /\ Get(record, "arguments").t \in {"object", "array"}

\* An unwrap that returns record.arguments as it is, without the hardcoded
\* normalization of line 63.
UnwrapRaw(record, tools) == Get(record, "arguments")
Unwrap(record, tools) ==
  LET OrHardcoded(normalized, inner) ==
        IF Truthy(normalized) THEN normalized ELSE normalizeToolParams(inner)
      With(inner, tool) ==
        OrHardcoded(IF tool.given /\ Truthy(tool.parameters)
                    THEN normalizeToolParamsFromSchema(inner, tool.parameters, tool)
                    ELSE Undef,
                    inner)
  IN With(Get(record, "arguments"), FindTool(tools, Get(record, "name").s))

\* Step 2: schema-based normalization with the tool's own schema.
SchemaStep(args, toolName, tools) ==
  LET With(tool) ==
        IF toolName # <<>> /\ tool.given /\ Truthy(tool.parameters)
        THEN normalizeToolParamsFromSchema(args, tool.parameters, tool)
        ELSE Undef
  IN With(FindTool(tools, toolName))

normalizeToolCallArgs(args, toolName, tools) ==
  LET \* a shallow copy holds the caller's own nested objects
      copies == args.t = "object" /\ In(args.o, "request")
      \* `if (changed) return normalized` at the end of a rule block, and 3.,
      \* the hardcoded fallback, when the block changed nothing
      Returned(st) ==
        IF st.changed THEN Ret(Obj(st.n), args, copies /\ In(st.n, "request"))
        ELSE Ret(normalizeToolParams(args), args, copies)
      BrowserReturned(st) ==
        IF st.changed
        THEN Ret(Obj(st.n),
                 IF copies THEN Obj(Set(args.o, "request", st.inReq)) ELSE args,
                 copies /\ st.shared /\ In(st.n, "request"))
        ELSE Ret(normalizeToolParams(args), args, copies)
      \* `if (normalized) return normalized` of step 2, else the rule blocks
      SchemaOr(normalized, fromRules) ==
        IF Truthy(normalized) THEN Ret(normalized, args, copies) ELSE fromRules
  IN IF ~Truthy(args) \/ ~TypeofObject(args) THEN Ret(Undef, args, FALSE)
     ELSE IF IsEnvelope(Spread(args)) THEN Ret(Unwrap(Spread(args), tools), args, FALSE)
     ELSE SchemaOr(
            SchemaStep(args, toolName, tools),
            IF toolName = Lit.cron /\ ~In(Spread(args), "action")
            THEN Returned(CronRules(Spread(args)))
            ELSE IF toolName = Lit.gateway THEN Returned(GatewayRules(Spread(args)))
            ELSE IF toolName = Lit.browser
            THEN BrowserReturned(BrowserRules(Spread(args)))
            ELSE IF toolName = Lit.web_fetch THEN Returned(WebFetchRules(Spread(args)))
            ELSE IF toolName = Lit.message THEN Returned(MessageRules(Spread(args)))
            ELSE Ret(normalizeToolParams(args), args, copies))

\* The arguments a caller ends up with (normalizeMessageToolCalls, and the
\* toolCall branch of pipeAndNormalize): the returned record when there is
\* one and its JSON text differs from that of the arguments, else the
\* arguments themselves.
repair(args, toolName, tools) ==
  LET Settled(r) ==
        IF Truthy(r.ret) /\ JsonForm(r.ret) # JsonForm(r.arg) THEN r.ret ELSE r.arg
  IN Settled(normalizeToolCallArgs(args, toolName, tools))

(***************************************************************************)
(* Objects of the event stream.  ref is the identity of a JavaScript       *)
(* object: the provider's objects carry positive refs, and an object the   *)
(* wrapper allocates ({ ...x, ... }) carries Fresh, which no provider      *)
(* object has.                                                             *)
(***************************************************************************)
Fresh == 0

\* A content block; `arguments` is meaningful for type "toolCall".
Block(ref, type, name, arguments) ==
  [ref |-> ref, type |-> type, name |-> name, arguments |-> arguments]

\* event.toolCall absent
NoBlock == Block(-1, "none", <<>>, Undef)

\* An assistant message; hasContent is FALSE when message.content is absent.
Message(ref, hasContent, content) ==
  [ref |-> ref, hasContent |-> hasContent, content |-> content]

\* event.message / event.partial absent
NoMessage == Message(-1, FALSE, <<>>)

Event(ref, type, delta, message, partial, toolCall) ==
  [ref |-> ref, type |-> type, delta |-> delta, message |-> message,
   partial |-> partial, toolCall |-> toolCall]

(***************************************************************************)
(* normalizeMessageToolCalls                                               *)
(***************************************************************************)
\* The callback of message.content.map for one block: out is the block put
\* in the new content list, live the provider's block after the call (its
\* arguments may have been written to), shared whether out.arguments.request
\* is still the provider's request object.
\* A callback that calls normalizeToolCallArgs without the block's tool
\* name.
NormalizeBlockUnnamed(block, tools) ==
  IF block.type # "toolCall"
  THEN [out |-> block, live |-> block, modified |-> FALSE, shared |-> FALSE]
  ELSE [out |-> [block EXCEPT !.ref = Fresh,
                              !.arguments = repair(block.arguments, <<>>, tools)],
        live |-> block, modified |-> TRUE, shared |-> FALSE]
NormalizeBlock(block, tools) ==
  LET Unmodified(live) ==
        [out |-> live, live |-> live, modified |-> FALSE, shared |-> FALSE]
      Normalized(r) ==
        IF ~Truthy(r.ret) THEN Unmodified([block EXCEPT !.arguments = r.arg])
        ELSE IF JsonForm(r.arg) = JsonForm(r.ret)
        THEN Unmodified([block EXCEPT !.arguments = r.arg])
        ELSE [out |-> [block EXCEPT !.ref = Fresh, !.arguments = r.ret],
              live |-> [block EXCEPT !.arguments = r.arg],
              modified |-> TRUE, shared |-> r.shared]
  IN IF block.type # "toolCall" THEN Unmodified(block)
     ELSE Normalized(normalizeToolCallArgs(block.arguments, block.name, tools))

normalizeMessageToolCalls(message, tools) ==
  LET Live(nb) == [message EXCEPT !.content = [i \in DOMAIN nb |-> nb[i].live]]
      Result(nb) ==
        [out |-> IF \E i \in DOMAIN nb : nb[i].modified
                 THEN Message(Fresh, TRUE, [i \in DOMAIN nb |-> nb[i].out])
                 ELSE Live(nb),
         live |-> Live(nb),
         shared |-> [i \in DOMAIN nb |-> nb[i].shared]]
  IN IF ~message.hasContent
     THEN [out |-> message, live |-> message, shared |-> <<>>]
     ELSE Result([i \in DOMAIN message.content |->
                    NormalizeBlock(message.content[i], tools)])

(***************************************************************************)
(* pipeAndNormalize: the handlers of one loop iteration.                   *)
(***************************************************************************)
\* JSON.stringify(tcObj.arguments).slice(0, 300) in the done diagnostics:
\* JSON.stringify yields undefined for an absent payload, and reading
\* .slice of undefined raises a TypeError.
DoneDiagnosticsThrow(event) ==
  /\ event.message.hasContent
  /\ \E i \in DOMAIN event.message.content :
       /\ event.message.content[i].type = "toolCall"
       /\ JsonForm(event.message.content[i].arguments) = Undef

\* A forwarding step that pushes a shallow copy { ...event } in place of the
\* event itself.
PassThroughCopy(event) == [event EXCEPT !.ref = Fresh]

\* output.push(event) for an event that is neither a done event nor a
\* toolcall_end event with a partial: the event object itself.
PassThrough(event) == event

\* The event pushed for a done event.
DoneOutput(event, tools) ==
  [event EXCEPT !.ref = Fresh,
                !.message = normalizeMessageToolCalls(event.message, tools).out]

\* Index in the partial's content of the very object event.toolCall is (0
\* when the tool call is not one of the partial's blocks).
SameBlockIndex(event) ==
  IF \E i \in DOMAIN event.partial.content :
       event.partial.content[i].ref = event.toolCall.ref
  THEN CHOOSE i \in DOMAIN event.partial.content :
         event.partial.content[i].ref = event.toolCall.ref
  ELSE 0

\* args with its request property holding the given object.
WithRequest(args, request) ==
  IF args.t = "object" /\ In(args.o, "request")
  THEN Obj(Set(args.o, "request", request)) ELSE args

\* The event pushed for a toolcall_end event that carries a partial: the
\* partial is normalized first, then the individual tool call, which sees
\* what the first pass wrote into the provider's objects; what the second
\* pass writes shows in the blocks of the first pass that hold the same
\* objects.
ToolcallEndOutput(event, tools) ==
  LET tc == event.toolCall
      idx == IF tc = NoBlock THEN 0 ELSE SameBlockIndex(event)
      NormalizedToolCall(r) ==
        IF tc = NoBlock THEN tc
        ELSE IF Truthy(r.ret) /\ JsonForm(r.ret) # JsonForm(r.arg)
        THEN [tc EXCEPT !.ref = Fresh, !.arguments = r.ret]
        ELSE [tc EXCEPT !.arguments = r.arg]
      PartialBlock(b, i, shared, r) ==
        IF i # idx THEN b
        ELSE IF b.ref = tc.ref THEN [b EXCEPT !.arguments = r.arg]
        ELSE IF shared
        THEN [b EXCEPT !.arguments = WithRequest(b.arguments, Prop(r.arg, "request"))]
        ELSE b
      Pushed(p, r) ==
        [event EXCEPT
           !.ref = Fresh,
           !.toolCall = NormalizedToolCall(r),
           !.partial = [p.out EXCEPT !.content =
                          [i \in DOMAIN p.out.content |->
                             PartialBlock(p.out.content[i], i, p.shared[i], r)]]]
      \* the arguments the tool call holds once the partial has been normalized
      Arguments(p) ==
        IF idx # 0 THEN p.live.content[idx].arguments ELSE tc.arguments
  IN Pushed(normalizeMessageToolCalls(event.partial, tools),
            normalizeToolCallArgs(
              Arguments(normalizeMessageToolCalls(event.partial, tools)),
              tc.name, tools))

(***************************************************************************)
(* State.                                                                  *)
(***************************************************************************)
VARIABLES
  tools,     \* the registry: context.tools mapped to { name, parameters }
  received,  \* events the for-await loop has taken from the input, as taken
  output,    \* events pushed to the wrapped stream, in push order
  ended,     \* number of output.end() calls
  pc,        \* pipeAndNormalize: "piping", "returned", "thrown", "caught"
  fullText,  \* the text accumulated for the diagnostics
  consumed,  \* number of output events the consumer has read
  abandoned, \* the consumer has stopped reading the wrapped stream
  inputClosed, \* the input's iterator has been closed by the loop
  toolName,  \* repair of one record: the tool's name
  args,      \* ... the argument value given
  aliases,   \* ... the alias map of the tool's schema
  result,    \* ... repair(args)
  again,     \* ... repair(repair(args))
  argsAfter, \* ... the argument value as normalizeToolCallArgs left it
  phase,     \* ... "start", "extracted", "repaired", "repeated"
  messageThreshold, \* auto-memory: the configured threshold
  messageCounts,    \* ... the per-session counter (a Map, keys as they come)
  handled,          \* ... history: agent_end events handled so far
  counted,          \* ... history: per session, successful events with messages
  analyses,         \* ... history: per session, analyses started
  messages,         \* compaction: the message list analysed
  analysis          \* ... analyzeConversationContent(messages)

vars ==
  <<tools, received, output, ended, pc, fullText,
    consumed, abandoned, inputClosed,
    toolName, args, aliases, result, again, argsAfter, phase,
    messageThreshold, messageCounts, handled, counted, analyses,
    messages, analysis>>

memoryVars == <<messageThreshold, messageCounts, handled, counted, analyses>>

compactionVars == <<messages, analysis>>

\* `cfg.messageThreshold ?? 5`
DefaultMessageThreshold == 5

\* No analysis made yet.
NotAnalysed == [made |-> FALSE]

\* The two components at rest, as the other components see them.
MemoryIdle ==
  /\ messageThreshold = DefaultMessageThreshold
  /\ messageCounts = <<>>
  /\ handled = 0
  /\ counted = <<>>
  /\ analyses = <<>>

CompactionIdle ==
  /\ messages = <<>>
  /\ analysis = NotAnalysed

consumerVars == <<consumed, abandoned>>

streamVars ==
  <<tools, received, output, ended, pc, fullText, consumed, abandoned, inputClosed>>

repairVars == <<toolName, args, aliases, result, again, argsAfter, phase>>

(***************************************************************************)
(* Inputs of the stream: provider events over a few tool calls.            *)
(***************************************************************************)
\* Longest input sequence explored.
MaxEvents == 3

Sample ==
  [read |-> <<"r", "e", "a", "d">>,
   run |-> <<"r", "u", "n">>,
   foo |-> <<"f", "o", "o">>,
   pwd |-> <<"p", "w", "d">>,
   a |-> <<"a">>,
   add |-> <<"a", "d", "d">>,
   now |-> <<"n", "o", "w">>,
   add_job |-> <<"a", "d", "d", "-", "j", "o", "b">>,
   status |-> <<"s", "t", "a", "t", "u", "s">>,
   bogus |-> <<"b", "o", "g", "u", "s">>,
   open |-> <<"o", "p", "e", "n">>,
   png |-> <<"p", "n", "g">>,
   send |-> <<"s", "e", "n", "d">>,
   hi |-> <<"h", "i">>,
   url1 |-> <<"h", "t", "t", "p", ":", "/", "/", "a">>,
   url2 |-> <<"H", "T", "T", "P", "S", ":", "/", "/", "b">>,
   short_q |-> <<"1", "4", "7", "6", "0", "?">>,
   long_dots |-> <<"1", "2", "3", "4", "5", "6", "7", ".", ".", ".">>,
   short |-> <<"1", "2", "3", "4", "5">>,
   q_dots |-> <<"1", "4", "7", "6", "0", "?", ".", ".", ".">>,
   dots_q |-> <<"1", "4", "7", "6", "0", ".", ".", ".", "?">>,
   ls |-> <<"l", "s">>,
   exec |-> <<"e", "x", "e", "c">>,
   click |-> <<"c", "l", "i", "c", "k">>,
   e1 |-> <<"e", "1">>]

\* A sub-schema { type: "string", description: d }.
StringSchema(d) == Obj(<<P("type", Str(Lit.string)), P("description", Str(d))>>)

\* A parameter schema { type: "object", properties: { ... } }.
ObjectSchema(properties) ==
  Obj(<<P("type", Str(Lit.object)), P("properties", Obj(properties))>>)

\* exec as patchToolSchemaForClaudeCompatibility leaves it: cmd duplicates
\* command.
ExecTool ==
  Tool(Sample.exec, ObjectSchema(<<P("command", StringSchema(<<"c">>)),
                              P("cmd", StringSchema(<<"c">>))>>))

StreamRegistries == {<<>>, <<ExecTool>>}

bText == Block(10, "text", <<>>, Undef)

bValid == Block(11, "toolCall", Sample.exec, Obj(<<P("command", Str(Sample.ls))>>))

bCmd == Block(12, "toolCall", Sample.exec, Obj(<<P("cmd", Str(Sample.ls))>>))

bArray == Block(13, "toolCall", Sample.exec, Arr(<<Str(Sample.ls)>>))

bAbsent == Block(14, "toolCall", Sample.exec, Undef)

bPrimitive == Block(15, "toolCall", Sample.exec, Str(Sample.ls))

bNull == Block(16, "toolCall", Sample.exec, Null)

bBrowser ==
  Block(17, "toolCall", Lit.browser,
        Obj(<<P("action", Str(Sample.click)), P("request", Obj(<<P("ref", Str(Sample.e1))>>))>>))

bGateway == Block(18, "toolCall", Lit.gateway, Obj(<<P("mode", Str(Lit.restart))>>))

\* message tool: an empty message next to media.
bMessage ==
  Block(20, "toolCall", Lit.message,
        Obj(<<P("message", Str(<<>>)), P("media", Str(Sample.a)), P("action", Str(Sample.send))>>))

\* browser: the action given as request.kind, next to another field.
bBrowserKind ==
  Block(21, "toolCall", Lit.browser,
        Obj(<<P("request", Obj(<<P("kind", Str(Sample.open)), P("ref", Str(Sample.e1))>>))>>))

\* A second object with the content of bCmd.
bCmdCopy == Block(19, "toolCall", Sample.exec, Obj(<<P("cmd", Str(Sample.ls))>>))

OtherEvents ==
  {Event(2, "toolcall_start", <<>>, NoMessage, NoMessage, NoBlock),
   Event(3, "error", <<>>, NoMessage, NoMessage, NoBlock),
   \* a toolcall_end without partial is passed through
   Event(4, "toolcall_end", <<>>, NoMessage, NoMessage, bCmd)}

TextDeltaEvents ==
  {Event(1, "text_delta", <<"h", "i">>, NoMessage, NoMessage, NoBlock)}

ToolcallEndEvents ==
  {Event(30, "toolcall_end", <<>>, NoMessage, Message(40, TRUE, <<bText, bValid>>), bValid),
   Event(31, "toolcall_end", <<>>, NoMessage, Message(41, TRUE, <<bCmd>>), bCmd),
   Event(32, "toolcall_end", <<>>, NoMessage, Message(42, TRUE, <<bCmd>>), bCmdCopy),
   Event(33, "toolcall_end", <<>>, NoMessage, Message(43, TRUE, <<bBrowser>>), bBrowser),
   Event(34, "toolcall_end", <<>>, NoMessage, Message(44, TRUE, <<bArray>>), bArray),
   Event(35, "toolcall_end", <<>>, NoMessage, Message(45, TRUE, <<bText>>), NoBlock),
   Event(36, "toolcall_end", <<>>, NoMessage, Message(46, TRUE, <<bBrowserKind>>),
         bBrowserKind)}

DoneEvents ==
  {Event(50, "done", <<>>, Message(60, FALSE, <<>>), NoMessage, NoBlock),
   Event(51, "done", <<>>, Message(61, TRUE, <<bText>>), NoMessage, NoBlock),
   Event(52, "done", <<>>, Message(62, TRUE, <<bText, bValid>>), NoMessage, NoBlock),
   Event(53, "done", <<>>, Message(63, TRUE, <<bCmd, bText, bGateway>>), NoMessage, NoBlock),
   Event(54, "done", <<>>, Message(64, TRUE, <<bArray>>), NoMessage, NoBlock),
   Event(55, "done", <<>>, Message(65, TRUE, <<bAbsent>>), NoMessage, NoBlock),
   Event(56, "done", <<>>, Message(66, TRUE, <<bPrimitive>>), NoMessage, NoBlock),
   Event(57, "done", <<>>, Message(67, TRUE, <<bNull>>), NoMessage, NoBlock),
   Event(58, "done", <<>>, Message(68, TRUE, <<bBrowser>>), NoMessage, NoBlock),
   Event(59, "done", <<>>, Message(69, TRUE, <<bMessage>>), NoMessage, NoBlock)}

(***************************************************************************)
(* createToolArgsNormalizerWrapper / pipeAndNormalize                      *)
(***************************************************************************)
\* The state when the wrapper has returned wrappedStream: the output stream
\* exists and pipeAndNormalize has been started on the provider's stream.
Init ==
  /\ tools \in StreamRegistries
  /\ received = <<>>
  /\ output = <<>>
  /\ ended = 0
  /\ pc = "piping"
  /\ fullText = <<>>
  /\ consumed = 0
  /\ abandoned = FALSE
  /\ inputClosed = FALSE
  /\ MemoryIdle
  /\ CompactionIdle
  /\ toolName = <<>>
  /\ args = Undef
  /\ aliases = <<>>
  /\ result = Undef
  /\ again = Undef
  /\ argsAfter = Undef
  /\ phase = "idle"

\* The loop takes one more event from the input.
Takes(event) ==
  /\ pc = "piping"
  /\ Len(received) < MaxEvents
  /\ received' = Append(received, event)

\* A text_delta event: its text is accumulated and the event passed on.
ReceiveTextDelta ==
  \E event \in TextDeltaEvents :
    /\ Takes(event)
    /\ fullText' = fullText \o event.delta
    /\ output' = Append(output, PassThrough(event))
    /\ UNCHANGED <<tools, ended, pc, inputClosed>>
    /\ UNCHANGED <<repairVars, consumerVars, memoryVars, compactionVars>>

\* A done event: diagnostics, then the final message is normalized and a
\* new event pushed; an exception raised on the way leaves the loop, and
\* leaving a for-await loop abruptly closes its iterator.
ReceiveDone ==
  \E event \in DoneEvents :
    /\ Takes(event)
    /\ IF DoneDiagnosticsThrow(event)
       THEN /\ pc' = "thrown"
            /\ output' = output
            /\ inputClosed' = TRUE
       ELSE /\ pc' = pc
            /\ output' = Append(output, DoneOutput(event, tools))
            /\ inputClosed' = inputClosed
    /\ UNCHANGED <<tools, ended, fullText>>
    /\ UNCHANGED <<repairVars, consumerVars, memoryVars, compactionVars>>

\* A toolcall_end event that carries a partial message.
ReceiveToolcallEnd ==
  \E event \in ToolcallEndEvents :
    /\ Takes(event)
    /\ output' = Append(output, ToolcallEndOutput(event, tools))
    /\ UNCHANGED <<tools, ended, pc, fullText, inputClosed>>
    /\ UNCHANGED <<repairVars, consumerVars, memoryVars, compactionVars>>

\* Everything else is pushed as it is.
ReceiveOther ==
  \E event \in OtherEvents :
    /\ Takes(event)
    /\ output' = Append(output, PassThrough(event))
    /\ UNCHANGED <<tools, ended, pc, fullText, inputClosed>>
    /\ UNCHANGED <<repairVars, consumerVars, memoryVars, compactionVars>>

\* The input ends: the loop is left and output.end() called.
InputEnds ==
  /\ pc = "piping"
  /\ ended' = ended + 1
  /\ pc' = "returned"
  /\ UNCHANGED <<tools, received, output, fullText, inputClosed>>
  /\ UNCHANGED <<repairVars, consumerVars, memoryVars, compactionVars>>

\* The input raises during iteration: the catch block re-throws, so the
\* promise of pipeAndNormalize is rejected.
InputRaises ==
  /\ pc = "piping"
  /\ pc' = "thrown"
  /\ UNCHANGED <<tools, received, output, ended, fullText, inputClosed>>
  /\ UNCHANGED <<repairVars, consumerVars, memoryVars, compactionVars>>

\* The .catch callback of createToolArgsNormalizerWrapper: it logs.
StreamErrorLogged ==
  /\ pc = "thrown"
  /\ pc' = "caught"
  /\ UNCHANGED <<tools, received, output, ended, fullText, inputClosed>>
  /\ UNCHANGED <<repairVars, consumerVars, memoryVars, compactionVars>>

Next ==
  \/ ReceiveTextDelta
  \/ ReceiveDone
  \/ ReceiveToolcallEnd
  \/ ReceiveOther
  \/ InputEnds
  \/ InputRaises
  \/ StreamErrorLogged

Spec == Init /\ [][Next]_vars

(***************************************************************************)
(* The wrapped stream with its consumer, the agent loop.  output.push is   *)
(* a plain call: pipeAndNormalize awaits nothing but the input, so no step *)
(* of the loop depends on what the consumer has read or on whether it      *)
(* still reads.                                                            *)
(***************************************************************************)
\* The consumer reads the next pushed event.
ConsumerReads ==
  /\ ~abandoned
  /\ consumed < Len(output)
  /\ consumed' = consumed + 1
  /\ UNCHANGED <<tools, received, output, ended, pc, fullText, abandoned, inputClosed>>
  /\ UNCHANGED <<repairVars, memoryVars, compactionVars>>

\* The consumer gives up on the wrapped stream while the input is still
\* being piped.
ConsumerAbandons ==
  /\ ~abandoned
  /\ pc = "piping"
  /\ abandoned' = TRUE
  /\ UNCHANGED <<tools, received, output, ended, pc, fullText, consumed, inputClosed>>
  /\ UNCHANGED <<repairVars, memoryVars, compactionVars>>

NextConsumed == Next \/ ConsumerReads \/ ConsumerAbandons

\* The event loop runs every continuation that is ready: the loop of
\* pipeAndNormalize and the .catch callback go on while they can.
SpecConsumed == Init /\ [][NextConsumed]_vars /\ WF_vars(Next)

(***************************************************************************)
(* Repair of one argument record, as a caller of normalizeToolCallArgs     *)
(* sees it: inputs drawn from bounded sets, then the alias map of the      *)
(* tool's schema, the repair, and the repair of the repaired record.       *)
(***************************************************************************)
\* Most properties a generated schema declares.
MaxProps == 3

\* Most fields a generated argument record has.
MaxFields == 2

RECURSIVE DistinctSeqs(_, _)
\* Sequences of at most n properties of pool with pairwise distinct names.
DistinctSeqs(pool, n) ==
  IF n = 0 THEN {<<>>}
  ELSE LET prev == DistinctSeqs(pool, n - 1) IN
       prev \cup {Append(qf[1], qf[2]) :
                    qf \in {x \in prev \X pool : ~In(x[1], x[2].k)}}

\* Schemas of the read tool: up to MaxProps of these properties in any
\* order, each with one of two sub-schemas.
SchemaPropertyPool ==
  {P(name, StringSchema(d)) :
     name \in {"path", "file_path", "dir", "cwd", "command", "cmd"},
     d \in {<<"p">>, <<"q">>}}

ReadRegistries ==
  {<<Tool(Sample.read, ObjectSchema(props))>> :
     props \in DistinctSeqs(SchemaPropertyPool, MaxProps)}

ReadArgs ==
  {Obj(<<P("file_path", Str(Sample.a))>>),
   Obj(<<P("cmd", Str(Sample.ls))>>),
   Obj(<<P("cmd", Arr(<<Str(Sample.ls), Str(Sample.a)>>))>>),
   Obj(<<P("path", Str(Sample.a))>>),
   Obj(<<P("file_path", Str(Sample.a)), P("path", Str(Sample.pwd))>>),
   Obj(<<P("dir", Str(Sample.a)), P("file_path", Str(Sample.pwd))>>)}

\* run declares cmd and nothing else; gateway declares no duplicates.
RunTool == Tool(Sample.run, ObjectSchema(<<P("cmd", StringSchema(<<"c">>))>>))

GatewayTool ==
  Tool(Lit.gateway, ObjectSchema(<<P("action", StringSchema(<<"a">>)),
                                 P("raw", StringSchema(<<"r">>))>>))

FixedRegistries == {<<>>, <<ExecTool, RunTool, GatewayTool>>}

OtherToolNames ==
  {Lit.cron, Lit.gateway, Lit.browser, Lit.web_fetch, Lit.message, Sample.exec, Sample.run, Sample.foo}

GenericFields ==
  {P("cmd", Str(Sample.ls)), P("cmd", Arr(<<Str(Sample.ls), Str(Sample.a)>>)),
   P("cmd", Num(<<"5">>)), P("command", Str(Sample.pwd)),
   P("file_path", Str(Sample.a)), P("path", Str(Sample.pwd)), P("root", Str(Sample.a))}

FieldPool(name) ==
  CASE name = Lit.cron ->
         {P("mode", Str(Sample.add)), P("mode", Str(Sample.now)), P("id", Str(Sample.add_job)),
          P("action", Str(Sample.status)), P("cmd", Str(Sample.ls)), P("root", Str(Sample.a))}
    [] name = Lit.gateway ->
         {P("mode", Str(Lit.restart)), P("mode", Str(Lit.start)), P("raw", Str(Lit.start)),
          P("type", Str(Lit.restart)), P("action", Str(Lit.restart)),
          P("action", Str(Sample.bogus)), P("cmd", Str(Sample.ls))}
    [] name = Lit.browser ->
         {P("action", Str(Sample.click)), P("action", Str(Sample.open)), P("action", Str(Sample.bogus)),
          P("ref", Str(Sample.click)), P("ref", Str(Sample.e1)), P("ref", Str(Sample.open)),
          P("type", Str(Sample.click)), P("type", Str(Sample.url1)), P("type", Str(Sample.png)),
          P("request", Obj(<<P("kind", Str(Sample.open))>>)),
          P("request", Obj(<<P("kind", Str(Sample.open)), P("ref", Str(Sample.e1))>>)),
          P("request", Obj(<<P("ref", Str(Sample.e1))>>)),
          P("inputRef", Str(Sample.url1)), P("targetUrl", Str(Sample.url2)),
          P("targetUrl", Str(Sample.a)), P("mode", Str(Sample.status)), P("target", Null)}
    [] name = Lit.web_fetch ->
         {P("url", Str(Sample.url1)), P("url", Str(Sample.a)), P("targetUrl", Str(Sample.url2)),
          P("targetUrl", Str(Sample.a)), P("inputRef", Str(Sample.url2)), P("href", Str(Sample.a)),
          P("link", Str(Sample.url2)), P("address", Str(Sample.url2)), P("q", Str(Sample.url2))}
    [] name = Lit.message ->
         {P("action", Str(Sample.send)), P("type", Str(Sample.send)), P("message", Str(<<>>)),
          P("message", Str(Sample.hi)), P("text", Str(Sample.hi)), P("media", Str(Sample.a)),
          P("to", Str(Sample.short_q)), P("target", Str(Sample.short_q)),
          P("target", Str(Sample.long_dots)), P("target", Str(Sample.short)),
          P("target", Str(Sample.q_dots)), P("to", Str(Sample.dots_q)),
          P("mode", Str(Sample.send))}
    [] OTHER -> GenericFields

\* Payloads that are not records, and { name, arguments } envelopes.
SpecialArgs ==
  {Undef, Null, Str(Sample.ls), Num(<<"0">>), Arr(<<Str(Sample.ls)>>),
   Obj(<<P("name", Str(Sample.exec)), P("arguments", Obj(<<P("cmd", Str(Sample.ls))>>))>>),
   Obj(<<P("name", Str(Sample.exec)),
         P("arguments", Obj(<<P("name", Str(Sample.exec)),
                              P("arguments", Obj(<<P("cmd", Str(Sample.ls))>>))>>))>>),
   Obj(<<P("name", Str(Sample.foo)), P("arguments", Arr(<<Str(Sample.ls)>>))>>),
   Obj(<<P("name", Str(Sample.exec)), P("arguments", Obj(<<P("command", Str(Sample.ls))>>)),
         P("id", Str(Sample.a))>>),
   Obj(<<P("name", Str(Sample.exec)), P("arguments", Obj(<<P("command", Str(Sample.ls))>>))>>),
   Obj(<<P("name", Str(Sample.foo)),
         P("arguments", Obj(<<P("command", Str(Sample.ls)), P("root", Str(Sample.a))>>))>>),
   Obj(<<P("name", Str(Lit.gateway)), P("arguments", Obj(<<P("mode", Str(Lit.restart))>>))>>)}

ArgsFor(name) ==
  SpecialArgs \cup {Obj(fs) : fs \in DistinctSeqs(FieldPool(name), MaxFields)}

InitRepair ==
  /\ \/ /\ toolName = Sample.read
        /\ tools \in ReadRegistries
        /\ args \in ReadArgs
     \/ /\ toolName \in OtherToolNames
        /\ tools \in FixedRegistries
        /\ args \in ArgsFor(toolName)
  /\ aliases = <<>>
  /\ result = Undef
  /\ again = Undef
  /\ argsAfter = Undef
  /\ phase = "start"
  /\ received = <<>>
  /\ output = <<>>
  /\ ended = 0
  /\ pc = "idle"
  /\ fullText = <<>>
  /\ consumed = 0
  /\ abandoned = FALSE
  /\ inputClosed = FALSE
  /\ MemoryIdle
  /\ CompactionIdle

\* extractAliasesFromSchema on the tool the registry holds under toolName.
ExtractAliases ==
  /\ phase = "start"
  /\ aliases' = extractAliasesFromSchema(FindTool(tools, toolName))
  /\ phase' = "extracted"
  /\ UNCHANGED <<toolName, args, result, again, argsAfter>>
  /\ UNCHANGED <<streamVars, memoryVars, compactionVars>>

\* The record is repaired.
Repair ==
  /\ phase = "extracted"
  /\ result' = repair(args, toolName, tools)
  /\ argsAfter' = normalizeToolCallArgs(args, toolName, tools).arg
  /\ phase' = "repaired"
  /\ UNCHANGED <<toolName, args, aliases, again>>
  /\ UNCHANGED <<streamVars, memoryVars, compactionVars>>

\* The repaired record is repaired again, same tool name and registry.
RepairAgain ==
  /\ phase = "repaired"
  /\ again' = repair(result, toolName, tools)
  /\ phase' = "repeated"
  /\ UNCHANGED <<toolName, args, aliases, result, argsAfter>>
  /\ UNCHANGED <<streamVars, memoryVars, compactionVars>>

NextRepair == ExtractAliases \/ Repair \/ RepairAgain

SpecRepair == InitRepair /\ [][NextRepair]_vars

(***************************************************************************)
(* Properties.                                                             *)
(***************************************************************************)
\* C1: every event taken from the input has been pushed to the output, one
\* output event per input event, in the same order and of the same kind.
C1_OneToOne ==
  /\ Len(output) = Len(received)
  /\ \A i \in DOMAIN output : output[i].type = received[i].type

\* C2: once pipeAndNormalize has settled, because the input ended or
\* because it raised, the output stream has been ended exactly once.
C2_EndedExactlyOnce ==
  pc \in {"returned", "caught"} => ended = 1

\* C3: repairing a repaired record again, with the same tool name and
\* registry, yields a record structurally equal to the repaired one.
C3_Idempotent ==
  phase = "repeated" => StructEq(again, result)

\* value is of the type the sub-schema declares.
TypeMatches(value, schema) ==
  CASE Prop(schema, "type") = Str(Lit.string) -> value.t = "string"
    [] Prop(schema, "type") = Str(Lit.array) -> value.t = "array"
    [] Prop(schema, "type") = Str(Lit.object) -> value.t = "object"
    [] OTHER -> TRUE

\* record satisfies the parameter schema the tool declares: it is a record,
\* each of its fields is declared, and holds a value of the declared type.
SatisfiesSchema(record, tool) ==
  /\ tool.given
  /\ Truthy(Prop(tool.parameters, "properties"))
  /\ record.t = "object"
  /\ \A key \in Keys(record.o) :
       /\ In(Prop(tool.parameters, "properties").o, key)
       /\ TypeMatches(Get(record.o, key), Get(Prop(tool.parameters, "properties").o, key))

\* C4: a record that satisfies its tool's declared schema is returned
\* structurally equal by repair.
C4_NonDestructive ==
  (phase \in {"repaired", "repeated"} /\ SatisfiesSchema(args, FindTool(tools, toolName)))
    => StructEq(result, args)

\* Repair leaves the arguments of a block structurally as they are.
ArgsUnchanged(block) ==
  block.type = "toolCall" =>
    StructEq(repair(block.arguments, block.name, tools), block.arguments)

\* C5: when repair changes no tool call's arguments in a done or
\* toolcall_end event, the pushed event holds the very message / partial
\* and tool-call objects of the input event, and its other fields are the
\* input's.
C5_ReferenceIdentical ==
  \A i \in DOMAIN output :
    LET e == received[i]
        o == output[i]
        unchanged ==
          /\ \A j \in DOMAIN e.message.content : ArgsUnchanged(e.message.content[j])
          /\ \A j \in DOMAIN e.partial.content : ArgsUnchanged(e.partial.content[j])
          /\ ArgsUnchanged(e.toolCall)
    IN (e.type \in {"done", "toolcall_end"} /\ unchanged) =>
         /\ o.message = e.message
         /\ o.partial = e.partial
         /\ o.toolCall = e.toolCall
         /\ o.type = e.type
         /\ o.delta = e.delta

\* C6: an input event that is neither a done nor a toolcall_end event is
\* pushed to the output as the very same object, unmodified.
C6_OthersUntouched ==
  \A i \in DOMAIN received :
    received[i].type \notin {"done", "toolcall_end"}
      => (i \in DOMAIN output /\ output[i] = received[i])

\* C6 witness: a text_delta, toolcall_start or error event has been pushed
\* in a stream that also carried a rewritten event.
C6_Witness ==
  /\ \E i \in DOMAIN output : received[i].type \notin {"done", "toolcall_end"}
  /\ \E i \in DOMAIN output : output[i].ref = Fresh

\* The payload is not a structured record.
NotARecord(value) == value.t # "object"

\* C7: a tool call whose payload is a primitive, null or an array is
\* emitted with exactly the payload it arrived with.
C7_NonRecordUnchanged ==
  \A i \in DOMAIN output :
    LET e == received[i]
        o == output[i]
    IN /\ \A j \in DOMAIN e.message.content :
            (e.type = "done" /\ e.message.content[j].type = "toolCall"
               /\ NotARecord(e.message.content[j].arguments))
              => o.message.content[j].arguments = e.message.content[j].arguments
       /\ (e.type = "toolcall_end" /\ e.toolCall.type = "toolCall"
             /\ NotARecord(e.toolCall.arguments))
            => o.toolCall.arguments = e.toolCall.arguments

\* C8: every done event taken from the input is forwarded as a done event,
\* whatever the tool calls' payloads are.
C8_DoneForwarded ==
  \A i \in DOMAIN received :
    received[i].type = "done" => (i \in DOMAIN output /\ output[i].type = "done")

\* C9: when the tool's schema declares a known pair (a, b) with identical
\* sub-schemas, a record with b and without a is repaired to a record with
\* a holding b's value and without b.
C9_AliasSymmetry ==
  phase \in {"repaired", "repeated"} =>
    \A n \in DOMAIN KNOWN_ALIAS_PAIRS :
      LET a == KNOWN_ALIAS_PAIRS[n].original
          b == KNOWN_ALIAS_PAIRS[n].alias
          properties == Spread(Prop(FindTool(tools, toolName).parameters, "properties"))
      IN (/\ In(properties, a) /\ In(properties, b)
          /\ schemaDeepEqual(Get(properties, a), Get(properties, b))
          /\ args.t = "object" /\ In(args.o, b) /\ ~In(args.o, a))
         => /\ result.t = "object"
            /\ In(result.o, a)
            /\ ~In(result.o, b)
            /\ Get(result.o, a) = Get(args.o, b)

\* C10: the alias map of a schema has one target per alias, and no name is
\* both an alias and a target.
C10_AliasMapFlat ==
  phase # "start" =>
    \A i, j \in DOMAIN aliases :
      /\ aliases[i].k # aliases[j].v
      /\ (aliases[i].k = aliases[j].k => i = j)

\* The registry holds a tool with a parameter schema.
HasSchema(tool) == tool.given /\ Truthy(tool.parameters)

\* value is a { name: <string>, arguments: <record> } envelope.
IsRecordEnvelope(value) ==
  /\ value.t = "object"
  /\ IsEnvelope(value.o)
  /\ Get(value.o, "arguments").t = "object"

\* C11: an envelope { name, arguments } whose name has no schema in the
\* registry is repaired to its nested arguments record with the universal
\* fixes applied (root removed, known aliases renamed).
C11_EnvelopeUnwrapped ==
  (/\ phase \in {"repaired", "repeated"}
   /\ IsRecordEnvelope(args)
   /\ ~HasSchema(FindTool(tools, Get(args.o, "name").s)))
    => result = normalizeToolParams(Get(args.o, "arguments"))

\* C11 witness: { name: foo, arguments: { command: ls, root: a } } has been
\* repaired to { command: ls } with an empty registry.
C11_Witness ==
  /\ phase = "repaired"
  /\ tools = <<>>
  /\ args = Obj(<<P("name", Str(Sample.foo)),
                  P("arguments", Obj(<<P("command", Str(Sample.ls)),
                                       P("root", Str(Sample.a))>>))>>)
  /\ result = Obj(<<P("command", Str(Sample.ls))>>)

\* C12: an envelope { name: n, arguments: a } is repaired, under any outer
\* tool name, to what repair yields for the inner record a under the inner
\* tool name n.
C12_UnwrapRecurses ==
  (phase \in {"repaired", "repeated"} /\ IsRecordEnvelope(args))
    => StructEq(result, repair(Get(args.o, "arguments"), Get(args.o, "name").s, tools))

RECURSIVE StripMarkers(_)
\* cs without any run of trailing '?' and '...' markers, trimmed.
StripMarkers(cs) ==
  IF EndsWith(Trim(cs), <<"?">>)
  THEN StripMarkers(StripTrailing(Trim(cs), "?"))
  ELSE IF EndsWith(Trim(cs), <<".", ".", ".">>)
  THEN StripMarkers(StripTrailing(Trim(cs), "."))
  ELSE Trim(cs)

\* The field of the repaired record that holds what record[field] held:
\* a non-empty `to` moves to target when the record has no target.
TargetFieldOut(record, field) ==
  IF field = "to" /\ ~In(record, "target") /\ Trim(Get(record, field).s) # <<>>
  THEN "target" ELSE field

\* out holds the cleaned form of the string record[field]: with a trailing
\* marker, the fully stripped value, or nothing when that is a run of fewer
\* than MinTargetDigits digits; without one, the field is still there.
TargetCleaned(record, out, field, value, stripped) ==
  IF EndsWith(value, <<"?">>) \/ EndsWith(value, <<".", ".", ".">>)
  THEN IF AllDigits(stripped) /\ Len(stripped) < MinTargetDigits
       THEN ~In(out, TargetFieldOut(record, field))
       ELSE stripped # <<>> =>
              /\ In(out, TargetFieldOut(record, field))
              /\ Get(out, TargetFieldOut(record, field)) = Str(stripped)
  ELSE value # <<>> => In(out, TargetFieldOut(record, field))

\* C13: in a record repaired for the message tool, a target or to string
\* that ended in '?' or '...' has lost all its trailing markers, and is
\* absent when what remains is fewer than seven digits; a string that had
\* no trailing marker is still present.
C13_TruncationCleanup ==
  (/\ phase \in {"repaired", "repeated"}
   /\ toolName = Lit.message
   /\ args.t = "object" /\ ~IsEnvelope(args.o))
    => \A field \in {"target", "to"} :
         (In(args.o, field) /\ IsString(Get(args.o, field)))
           => TargetCleaned(args.o, result.o, field,
                            Trim(Get(args.o, field).s),
                            StripMarkers(Get(args.o, field).s))

\* validActions of the tool's block.
ActionEnumeration(name) ==
  CASE name = Lit.cron -> SeqRange(CronValidActions)
    [] name = Lit.gateway -> GatewayValidActions
    [] name = Lit.browser -> BrowserValidActions
    [] name = Lit.message -> MessageValidActions

\* record has no action, and a mode holding a value of the enumeration.
ModeHoldsAction(record, name) ==
  /\ ~In(record, "action")
  /\ In(record, "mode") /\ IsString(Get(record, "mode"))
  /\ Get(record, "mode").s \in ActionEnumeration(name)

\* C14: for gateway, cron, browser and message, a record without action
\* whose mode holds a value of the tool's action enumeration is repaired to
\* a record whose action is that value and which has no mode.
C14_ModePromoted ==
  (/\ phase \in {"repaired", "repeated"}
   /\ toolName \in {Lit.cron, Lit.gateway, Lit.browser, Lit.message}
   /\ args.t = "object" /\ ~IsEnvelope(args.o)
   /\ ModeHoldsAction(args.o, toolName))
    => /\ In(result.o, "action")
       /\ Get(result.o, "action") = Get(args.o, "mode")
       /\ ~In(result.o, "mode")

\* The renames of normalizeToolParams, as <<alias, canonical name>>.
HardcodedAliases ==
  {<<"file_path", "path">>, <<"old_string", "oldText">>,
   <<"new_string", "newText">>, <<"cmd", "command">>}

\* record has no root, and no known alias without its canonical name.
NoiseFree(record) ==
  /\ ~In(record, "root")
  /\ \A pair \in HardcodedAliases : In(record, pair[1]) => In(record, pair[2])

\* No block of rules is written for name, and the registry holds no schema
\* under it.
UnsupportedTool(name, registry) ==
  /\ name \notin {Lit.cron, Lit.gateway, Lit.browser, Lit.web_fetch, Lit.message}
  /\ ~HasSchema(FindTool(registry, name))

\* C15 as stated: for a tool with no rules and no schema, repair returns
\* every record structurally equal to what it was.
C15_UnsupportedNoOp ==
  (/\ phase \in {"repaired", "repeated"}
   /\ UnsupportedTool(toolName, tools)
   /\ args.t = "object" /\ ~IsEnvelope(args.o))
    => StructEq(result, args)

\* C15: for a tool with no rules and no schema, repair returns a record
\* without root in which every field other than root and the known aliases
\* is as it was, and a record with no root and no known alias lacking its
\* canonical name is returned structurally equal.
C15_UnsupportedFallbackOnly ==
  (/\ phase \in {"repaired", "repeated"}
   /\ UnsupportedTool(toolName, tools)
   /\ args.t = "object" /\ ~IsEnvelope(args.o))
    => /\ NoiseFree(args.o) => StructEq(result, args)
       /\ ~In(result.o, "root")
       /\ \A key \in Keys(args.o) \ ({"root"} \cup {pair[1] : pair \in HardcodedAliases}) :
            In(result.o, key) /\ Get(result.o, key) = Get(args.o, key)

\* C15 witness: { file_path: a, path: pwd } was repaired for the tool foo,
\* which has neither rules nor a schema, and came back as it was.
C15_Witness ==
  /\ phase = "repaired"
  /\ toolName = Sample.foo
  /\ args = Obj(<<P("file_path", Str(Sample.a)), P("path", Str(Sample.pwd))>>)
  /\ result = args

\* C16: after normalizeToolCallArgs has returned, the argument value it was
\* given, nested values included, is structurally equal to what it was
\* before the call.
C16_InputNotMutated ==
  phase \in {"repaired", "repeated"} => StructEq(argsAfter, args)

\* The canonical URL field of the tool's record.
UrlField(name) == IF name = Lit.browser THEN "targetUrl" ELSE "url"

\* C17: for browser and web_fetch, a URL-shaped value of the canonical URL
\* field (targetUrl, url) is still the value of that field in the repaired
\* record: no relocation from another field has replaced it.
C17_UrlNotReplaced ==
  (/\ phase \in {"repaired", "repeated"}
   /\ toolName \in {Lit.browser, Lit.web_fetch}
   /\ args.t = "object" /\ ~IsEnvelope(args.o)
   /\ In(args.o, UrlField(toolName))
   /\ IsString(Get(args.o, UrlField(toolName)))
   /\ looksLikeUrl(Get(args.o, UrlField(toolName)).s))
    => /\ In(result.o, UrlField(toolName))
       /\ Get(result.o, UrlField(toolName)) = Get(args.o, UrlField(toolName))

\* C18: at most one event has been pushed to the output and not yet read
\* by the consumer.
C18_Backpressure == Len(output) - consumed <= 1

\* C19: once the consumer has abandoned the wrapped stream, the input is
\* eventually closed.
C19_CancelledOnAbandon == abandoned ~> inputClosed

\* C20: the record repair returns, for any tool and whichever rule changed
\* it, has no root and no known alias (cmd, file_path, old_string,
\* new_string) without its canonical name.
C20_FallbackRunsLast ==
  (phase \in {"repaired", "repeated"} /\ args.t = "object")
    => NoiseFree(result.o)

\* The record and `changed` flag the rule block of tool `name` ends with.
PerToolRules(name, record) ==
  CASE name = Lit.cron ->
         IF In(record, "action") THEN St(record, FALSE) ELSE CronRules(record)
    [] name = Lit.gateway -> GatewayRules(record)
    [] name = Lit.browser -> BrowserRules(record)
    [] name = Lit.web_fetch -> WebFetchRules(record)
    [] name = Lit.message -> MessageRules(record)
    [] OTHER -> St(record, FALSE)

\* out has, under every key the rules wrote or deleted, what the rules
\* left there.
RulesApplied(record, ruled, out) ==
  \A key \in Keys(record) \cup Keys(ruled) :
    (In(record, key) # In(ruled, key) \/ Get(record, key) # Get(ruled, key))
      => (In(out, key) = In(ruled, key) /\ Get(out, key) = Get(ruled, key))

\* C21: a record that the per-tool rules of its tool change is returned
\* with those changes, whether or not the registry holds a schema for the
\* tool.
C21_RulesBeforeSchema ==
  (/\ phase \in {"repaired", "repeated"}
   /\ args.t = "object" /\ ~IsEnvelope(args.o)
   /\ PerToolRules(toolName, args.o).changed)
    => RulesApplied(args.o, PerToolRules(toolName, args.o).n, result.o)

\* C22: for any tool and registry, a record whose cmd is an array of
\* strings and that has no command is repaired to a record whose command
\* is those strings joined by one space and that has no cmd.
C22_ArrayJoined ==
  (/\ phase \in {"repaired", "repeated"}
   /\ args.t = "object" /\ ~IsEnvelope(args.o)
   /\ In(args.o, "cmd") /\ ~In(args.o, "command")
   /\ Get(args.o, "cmd").t = "array"
   /\ \A i \in DOMAIN Get(args.o, "cmd").a : IsString(Get(args.o, "cmd").a[i]))
    => /\ In(result.o, "command")
       /\ Get(result.o, "command") = Str(Join(Get(args.o, "cmd").a, Lit.space))
       /\ ~In(result.o, "cmd")

\* C23: when the record holds both an alias of the tool's alias map (or a
\* known alias of normalizeToolParams) and its canonical name, the repaired
\* record holds the canonical name with the value it had.
C23_CanonicalKept ==
  (phase \in {"repaired", "repeated"} /\ args.t = "object" /\ ~IsEnvelope(args.o))
    => /\ \A i \in DOMAIN aliases :
            (In(args.o, aliases[i].k) /\ In(args.o, aliases[i].v))
              => /\ In(result.o, aliases[i].v)
                 /\ Get(result.o, aliases[i].v) = Get(args.o, aliases[i].v)
       /\ \A pair \in HardcodedAliases :
            (In(args.o, pair[1]) /\ In(args.o, pair[2]))
              => /\ In(result.o, pair[2])
                 /\ Get(result.o, pair[2]) = Get(args.o, pair[2])

\* C24: the message of an emitted done event has as many blocks as the
\* input's, in the same order; each tool-call block carries the repair of
\* its own arguments under its own name, and each other block is the very
\* object of the input.
C24_BlocksRepaired ==
  \A i \in DOMAIN output :
    received[i].type = "done" =>
      /\ output[i].type = "done"
      /\ Len(output[i].message.content) = Len(received[i].message.content)
      /\ \A j \in DOMAIN received[i].message.content :
           IF received[i].message.content[j].type = "toolCall"
           THEN /\ output[i].message.content[j].type = "toolCall"
                /\ output[i].message.content[j].name = received[i].message.content[j].name
                /\ output[i].message.content[j].arguments =
                     repair(received[i].message.content[j].arguments,
                            received[i].message.content[j].name, tools)
           ELSE output[i].message.content[j] = received[i].message.content[j]

\* C24 witness: the done event with the blocks exec { cmd }, text and
\* gateway { mode } has been emitted with { command }, the same text block
\* and { action }.
C24_Witness ==
  \E i \in DOMAIN output :
    /\ received[i].type = "done"
    /\ received[i].message.content = <<bCmd, bText, bGateway>>
    /\ output[i].message.content[1].arguments = Obj(<<P("command", Str(Sample.ls))>>)
    /\ output[i].message.content[2] = bText
    /\ output[i].message.content[3].arguments = Obj(<<P("action", Str(Lit.restart))>>)

\* The act kind held by field, trimmed; <<>> when field holds none.
ActKindIn(record, field) ==
  IF /\ In(record, field) /\ IsString(Get(record, field))
     /\ Trim(Get(record, field).s) \in BrowserActKinds
  THEN Trim(Get(record, field).s) ELSE <<>>

\* The act kind found in action, ref or type, in this order.
FoundActKind(record) ==
  IF ActKindIn(record, "action") # <<>> THEN ActKindIn(record, "action")
  ELSE IF ActKindIn(record, "ref") # <<>> THEN ActKindIn(record, "ref")
  ELSE ActKindIn(record, "type")

\* C25: a browser record whose action is missing or invalid and whose
\* action, ref or type holds an act kind is repaired to a record with
\* action "act" and a request record; request.kind is the kind the record
\* already had there, else the act kind found.
C25_ActKindWrapped ==
  (/\ phase \in {"repaired", "repeated"}
   /\ toolName = Lit.browser
   /\ args.t = "object" /\ ~IsEnvelope(args.o)
   /\ ~(IsString(Get(args.o, "action"))
          /\ Trim(Get(args.o, "action").s) \in BrowserValidActions)
   /\ FoundActKind(args.o) # <<>>)
    => /\ Get(result.o, "action") = Str(Lit.act)
       /\ Get(result.o, "request").t = "object"
       /\ Prop(Get(result.o, "request"), "kind") =
            IF Prop(Get(args.o, "request"), "kind") # Undef
            THEN Prop(Get(args.o, "request"), "kind")
            ELSE Str(FoundActKind(args.o))


\* C26: envelope detection is exact.  A record that has name (a string) and
\* arguments together with other keys, or whose arguments is an array, is
\* not an envelope: it is repaired as it stands, so the repaired record still
\* has its name and its arguments, and is not the repair of arguments.
C26_EnvelopeExact ==
  (/\ phase \in {"repaired", "repeated"}
   /\ args.t = "object"
   /\ In(args.o, "name") /\ IsString(Get(args.o, "name"))
   /\ In(args.o, "arguments")
   /\ \/ Get(args.o, "arguments").t = "array"
      \/ Keys(args.o) # {"name", "arguments"})
    => /\ result.t = "object"
       /\ In(result.o, "name")
       /\ Get(result.o, "arguments") = Get(args.o, "arguments")


(***************************************************************************)
(* extensions/auto-memory: the agent_end hook and its per-session counter. *)
(* The hook's body up to the reset of the counter has no await, so one     *)
(* event is handled in one step.                                           *)
(***************************************************************************)
\* Largest configured threshold explored, besides the default.
MaxThreshold == 3

\* Number of agent_end events explored.
MaxAgentEnds == 8

\* cfg.messageThreshold is a positive number of messages, or left out.
Thresholds == (1..MaxThreshold) \cup {DefaultMessageThreshold}

Sessions == {"agent:main:main", "agent:ops:main"}

\* ctx.sessionKey: a session's key, or none.
SessionKeys == Sessions \cup {""}

\* event.messages: left out, empty, or holding a message.
EventMessages ==
  {Undef, Arr(<<>>), Arr(<<Obj(<<P("role", Str(<<"u", "s", "e", "r">>))>>)>>)}

AgentEndEvents == [success : BOOLEAN, messages : EventMessages]

\* `messageCounts.get(sessionKey) ?? 0`
CountOf(sessionKey) ==
  IF sessionKey \in DOMAIN messageCounts THEN messageCounts[sessionKey] ELSE 0

\* Map.prototype.set
MapSet(map, key, value) ==
  [k \in DOMAIN map \cup {key} |-> IF k = key THEN value ELSE map[k]]

\* `if (!event.success || !event.messages || event.messages.length === 0)`
Skipped(event) ==
  \/ ~event.success
  \/ ~Truthy(event.messages)
  \/ Len(event.messages.a) = 0

\* A threshold test that lets the counter reach the threshold itself.
ReachedThresholdLate(currentCount) == currentCount > messageThreshold
\* The negation of `if (currentCount < messageThreshold)`
ReachedThreshold(currentCount) == ~(currentCount < messageThreshold)

InitMemory ==
  /\ messageThreshold \in Thresholds
  /\ messageCounts = <<>>
  /\ handled = 0
  /\ counted = [k \in Sessions |-> 0]
  /\ analyses = [k \in Sessions |-> 0]
  /\ CompactionIdle
  /\ tools = <<>>
  /\ received = <<>>
  /\ output = <<>>
  /\ ended = 0
  /\ pc = "idle"
  /\ fullText = <<>>
  /\ consumed = 0
  /\ abandoned = FALSE
  /\ inputClosed = FALSE
  /\ toolName = <<>>
  /\ args = Undef
  /\ aliases = <<>>
  /\ result = Undef
  /\ again = Undef
  /\ argsAfter = Undef
  /\ phase = "idle"

\* api.on("agent_end", ...) up to the start of the analysis.
AgentEnd(event, sessionKey) ==
  /\ handled < MaxAgentEnds
  /\ handled' = handled + 1
  /\ IF Skipped(event) \/ sessionKey = ""
     THEN UNCHANGED <<messageCounts, counted, analyses>>
     ELSE /\ counted' = [counted EXCEPT ![sessionKey] = @ + 1]
          /\ IF ~ReachedThreshold(CountOf(sessionKey) + 1)
             THEN /\ messageCounts' =
                       MapSet(messageCounts, sessionKey, CountOf(sessionKey) + 1)
                  /\ UNCHANGED analyses
             ELSE /\ messageCounts' = MapSet(messageCounts, sessionKey, 0)
                  /\ analyses' = [analyses EXCEPT ![sessionKey] = @ + 1]
  /\ UNCHANGED <<messageThreshold, compactionVars>>
  /\ UNCHANGED <<tools, received, output, ended, pc, fullText, inputClosed>>
  /\ UNCHANGED <<repairVars, consumerVars>>

NextMemory ==
  \E event \in AgentEndEvents, sessionKey \in SessionKeys : AgentEnd(event, sessionKey)

SpecMemory == InitMemory /\ [][NextMemory]_vars

\* C27: for each session, the analysis is started on exactly every
\* messageThreshold-th successful agent_end event with messages and the
\* counter is then back at 0: the counter is the number of such events
\* modulo the threshold, the analyses started are their number divided by
\* it, whatever the other events and sessions did, and the counter stays
\* within 0 .. messageThreshold - 1.
C27_PeriodicProcessing ==
  handled > 0 =>
    \A k \in Sessions :
      /\ CountOf(k) = counted[k] % messageThreshold
      /\ analyses[k] = counted[k] \div messageThreshold
      /\ CountOf(k) \in 0..(messageThreshold - 1)

C27_Witness ==
  /\ messageThreshold = 3
  /\ \E k \in Sessions : analyses[k] = 2 /\ CountOf(k) = 0
  /\ \E k \in Sessions : analyses[k] = 0 /\ CountOf(k) = 1
  /\ handled > 7


(***************************************************************************)
(* agents/smart-compaction-instructions: analyzeConversationContent and   *)
(* extractLastUserIntent, on message lists.  A message is a record as the  *)
(* repair's values are; the fields of the analysis that are found by      *)
(* keyword and pattern search of the text (hasCode, hasErrors,            *)
(* hasDecisions, isSubagentTask, filePaths, correctionHint) depend on     *)
(* nothing else and are left out.                                         *)
(***************************************************************************)
\* Longest message list explored.
MaxMessages == 3

\* `text.length > 80`
MaxIntentLength == 80

\* `text.slice(0, 77)`
IntentSliceEnd == 77

Said ==
  [user |-> <<"u", "s", "e", "r">>,
   assistant |-> <<"a", "s", "s", "i", "s", "t", "a", "n", "t">>,
   toolResult |-> <<"t", "o", "o", "l", "R", "e", "s", "u", "l", "t">>,
   toolCall |-> <<"t", "o", "o", "l", "C", "a", "l", "l">>,
   text |-> <<"t", "e", "x", "t">>,
   thinking |-> <<"t", "h", "i", "n", "k", "i", "n", "g">>,
   read |-> <<"r", "e", "a", "d">>,
   write |-> <<"w", "r", "i", "t", "e">>,
   exec |-> <<"e", "x", "e", "c">>,
   execute |-> <<"e", "x", "e", "c", "u", "t", "e">>,
   bash |-> <<"b", "a", "s", "h">>,
   shell |-> <<"s", "h", "e", "l", "l">>,
   doThis |-> <<"D", "o", " ", "t", "h", "i", "s">>,
   addTests |-> <<" ", " ", "N", "o", "w", " ", "a", "d", "d", " ", "t", "e", "s", "t", "s", "?", " ", " ">>,
   blank |-> <<" ", " ", " ">>,
   done |-> <<"D", "o", "n", "e">>,
   first |-> <<"F", "i", "r", "s", "t", "?">>,
   really |-> <<"r", "e", "a", "l", "l", "y", "?", "?">>,
   ellipsis |-> <<".", ".", ".">>,
   newline |-> <<"\n">>,
   question |-> <<"?">>]

\* The value `true`.
True == [t |-> "boolean", s |-> <<"t", "r", "u", "e">>, a |-> <<>>, o |-> <<>>]

RECURSIVE TextParts(_)
\* the parts pushed by the loop over the content blocks, joined by "\n"
TextParts(content) ==
  IF content = <<>> THEN <<>>
  ELSE LET b == content[1]
           part == IF ~Truthy(b) \/ ~TypeofObject(b) THEN <<>>
                   ELSE IF Prop(b, "type") = Str(Said.text) /\ IsString(Prop(b, "text"))
                   THEN <<Prop(b, "text").s>>
                   ELSE IF Prop(b, "type") = Str(Said.thinking)
                           /\ IsString(Prop(b, "thinking"))
                   THEN <<Prop(b, "thinking").s>>
                   ELSE <<>>
       IN part \o TextParts(Tail(content))

RECURSIVE JoinLines(_)
\* parts.join("\n")
JoinLines(parts) ==
  IF parts = <<>> THEN <<>>
  ELSE IF Len(parts) = 1 THEN parts[1]
  ELSE parts[1] \o Said.newline \o JoinLines(Tail(parts))

extractTextFromMessage(msg) ==
  IF ~Truthy(msg) \/ ~TypeofObject(msg) THEN <<>>
  ELSE IF IsString(Prop(msg, "content")) THEN Prop(msg, "content").s
  ELSE IF Prop(msg, "content").t # "array" THEN <<>>
  ELSE JoinLines(TextParts(Prop(msg, "content").a))

RECURSIVE ToolCallNamesIn(_)
ToolCallNamesIn(content) ==
  IF content = <<>> THEN <<>>
  ELSE (IF Prop(content[1], "type") = Str(Said.toolCall)
           /\ IsString(Prop(content[1], "name"))
        THEN <<Prop(content[1], "name").s>> ELSE <<>>)
       \o ToolCallNamesIn(Tail(content))

extractToolCallNames(msg) ==
  IF ~Truthy(msg) \/ ~TypeofObject(msg) THEN <<>>
  ELSE IF Prop(msg, "role") # Str(Said.assistant) \/ Prop(msg, "content").t # "array"
  THEN <<>>
  ELSE ToolCallNamesIn(Prop(msg, "content").a)

EXEC_TOOL_NAMES == {Said.exec, Said.execute, Said.bash, Said.shell}

\* `(text.match(/\?/g) || []).length`
QuestionMarks(text) == Cardinality({i \in DOMAIN text : text[i] = "?"})

\* toolNameSet.add(name); toolUsage.set(name, (toolUsage.get(name) || 0) + 1)
TrackTool(a, name) ==
  [a EXCEPT !.toolNames = IF \E i \in DOMAIN @ : @[i] = name THEN @ ELSE Append(@, name),
            !.toolUsage = [k \in DOMAIN @ \cup {name} |->
                             IF k = name
                             THEN (IF name \in DOMAIN @ THEN @[name] ELSE 0) + 1
                             ELSE @[k]],
            !.hasExecCommands = @ \/ name \in EXEC_TOOL_NAMES]

RECURSIVE TrackToolCalls(_, _)
TrackToolCalls(a, names) ==
  IF names = <<>> THEN a ELSE TrackToolCalls(TrackTool(a, names[1]), Tail(names))

\* the `role === "toolResult"` block of the loop
TrackToolResult(a, msg) ==
  IF Prop(msg, "role") # Str(Said.toolResult) THEN a
  ELSE LET counted1 == [a EXCEPT !.errorToolCount =
                                   IF Prop(msg, "isError") = True THEN @ + 1 ELSE @]
       IN IF IsString(Prop(msg, "toolName")) /\ Truthy(Prop(msg, "toolName"))
          THEN TrackTool(counted1, Prop(msg, "toolName").s)
          ELSE counted1

\* the question detection of the loop
TrackQuestions(a, msg, text) ==
  IF Prop(msg, "role") = Str(Said.user) /\ QuestionMarks(text) > 0
  THEN [a EXCEPT !.hasQuestions = TRUE, !.questionCount = @ + QuestionMarks(text)]
  ELSE a

\* one pass of `for (const msg of messages)`
AnalyzeMessage(a, msg) ==
  IF ~Truthy(msg) \/ ~TypeofObject(msg) THEN a
  ELSE TrackToolResult(
         TrackToolCalls(TrackQuestions(a, msg, extractTextFromMessage(msg)),
                        extractToolCallNames(msg)),
         msg)

RECURSIVE AnalyzeFrom(_, _)
AnalyzeFrom(a, rest) ==
  IF rest = <<>> THEN a ELSE AnalyzeFrom(AnalyzeMessage(a, rest[1]), Tail(rest))

\* `text.length > 80 ? text.slice(0, 77) + "..." : text`
Snippet(text) ==
  IF Len(text) > MaxIntentLength
  THEN SubSeq(text, 1, IntentSliceEnd) \o Said.ellipsis
  ELSE text

RECURSIVE IntentFrom(_, _)
\* the loop `for (let i = messages.length - 1; i >= 0; i--)`, i counted from 1
IntentFrom(msgs, i) ==
  IF i < 1 THEN Undef
  ELSE IF Prop(msgs[i], "role") # Str(Said.user) THEN IntentFrom(msgs, i - 1)
  ELSE IF Trim(extractTextFromMessage(msgs[i])) = <<>> THEN IntentFrom(msgs, i - 1)
  ELSE Str(Snippet(Trim(extractTextFromMessage(msgs[i]))))

\* A search that ends at the last user message, blank or not.
extractLastUserIntentOrBlank(msgs) ==
  LET users == {i \in DOMAIN msgs : Prop(msgs[i], "role") = Str(Said.user)}
      last == CHOOSE i \in users : \A j \in users : j <= i
  IN IF users = {} \/ Trim(extractTextFromMessage(msgs[last])) = <<>> THEN Undef
     ELSE Str(Snippet(Trim(extractTextFromMessage(msgs[last]))))
extractLastUserIntent(msgs) == IntentFrom(msgs, Len(msgs))

\* A count of the assistant's side only.
analyzeAssistantSide(msgs) ==
  [AnalyzeFrom([made |-> TRUE, messageCount |-> Len(msgs), toolUsage |-> <<>>,
                toolNames |-> <<>>, hasExecCommands |-> FALSE, errorToolCount |-> 0,
                hasQuestions |-> FALSE, questionCount |-> 0, lastUserIntent |-> Undef],
               [i \in DOMAIN msgs |->
                  IF Prop(msgs[i], "role") = Str(Said.toolResult)
                  THEN Obj(<<P("role", Str(Said.toolResult))>>) ELSE msgs[i]])
     EXCEPT !.lastUserIntent = extractLastUserIntent(msgs)]
analyzeConversationContent(msgs) ==
  LET initial == [made |-> TRUE, messageCount |-> Len(msgs), toolUsage |-> <<>>,
                  toolNames |-> <<>>, hasExecCommands |-> FALSE, errorToolCount |-> 0,
                  hasQuestions |-> FALSE, questionCount |-> 0, lastUserIntent |-> Undef]
  IN IF msgs = <<>> THEN initial
     ELSE [AnalyzeFrom(initial, msgs) EXCEPT !.lastUserIntent = extractLastUserIntent(msgs)]


\* Messages as the agent keeps them.
UserMsg(text) == Obj(<<P("role", Str(Said.user)), P("content", Str(text))>>)

AssistantMsg(blocks) == Obj(<<P("role", Str(Said.assistant)), P("content", Arr(blocks))>>)

ToolResultMsg(fields) == Obj(<<P("role", Str(Said.toolResult))>> \o fields)

TextBlock(text) == Obj(<<P("type", Str(Said.text)), P("text", Str(text))>>)

ToolCallBlock(name) == Obj(<<P("type", Str(Said.toolCall)), P("name", name)>>)

Xs(n) == [i \in 1..n |-> "x"]

MessagePool ==
  {UserMsg(Said.doThis), UserMsg(Said.addTests), UserMsg(Said.blank),
   UserMsg(Xs(MaxIntentLength)),
   UserMsg(Said.blank \o Xs(MaxIntentLength + 1) \o Said.blank),
   Obj(<<P("role", Str(Said.user)),
         P("content", Arr(<<TextBlock(<<>>), TextBlock(Said.first),
                            Obj(<<P("type", Str(Said.thinking)),
                                  P("thinking", Str(Said.really))>>),
                            ToolCallBlock(Str(Said.read))>>))>>),
   AssistantMsg(<<TextBlock(Said.done)>>),
   AssistantMsg(<<ToolCallBlock(Str(Said.read)), ToolCallBlock(Str(Said.write)),
                  ToolCallBlock(Str(Said.read))>>),
   AssistantMsg(<<ToolCallBlock(Str(Said.exec)), ToolCallBlock(Str(<<>>)),
                  ToolCallBlock(Undef)>>),
   ToolResultMsg(<<P("toolName", Str(Said.read))>>),
   ToolResultMsg(<<P("toolName", Str(Said.bash)), P("isError", True)>>),
   ToolResultMsg(<<P("toolName", Str(<<>>))>>),
   ToolResultMsg(<<>>)}

MessageLists == UNION {[1..n -> MessagePool] : n \in 0..MaxMessages}

InitCompaction ==
  /\ messages \in MessageLists
  /\ analysis = NotAnalysed
  /\ MemoryIdle
  /\ tools = <<>>
  /\ received = <<>>
  /\ output = <<>>
  /\ ended = 0
  /\ pc = "idle"
  /\ fullText = <<>>
  /\ consumed = 0
  /\ abandoned = FALSE
  /\ inputClosed = FALSE
  /\ toolName = <<>>
  /\ args = Undef
  /\ aliases = <<>>
  /\ result = Undef
  /\ again = Undef
  /\ argsAfter = Undef
  /\ phase = "idle"

Analyze ==
  /\ ~analysis.made
  /\ analysis' = analyzeConversationContent(messages)
  /\ UNCHANGED <<messages, memoryVars>>
  /\ UNCHANGED <<tools, received, output, ended, pc, fullText, inputClosed>>
  /\ UNCHANGED <<repairVars, consumerVars>>

NextCompaction == Analyze

SpecCompaction == InitCompaction /\ [][NextCompaction]_vars

\* Tool names a message list of the pool can hold.
ToolNamePool ==
  {Said.read, Said.write, Said.exec, Said.bash, Said.shell, <<>>}

\* Number of toolCall blocks named n in assistant messages.
CallsOf(n) ==
  LET assistants == {i \in DOMAIN messages :
                       /\ Prop(messages[i], "role") = Str(Said.assistant)
                       /\ Prop(messages[i], "content").t = "array"}
      BlocksOf(i) == Prop(messages[i], "content").a
  IN Cardinality(UNION {{<<i, j>> : j \in {j \in DOMAIN BlocksOf(i) :
                                         /\ Prop(BlocksOf(i)[j], "type") = Str(Said.toolCall)
                                         /\ Prop(BlocksOf(i)[j], "name") = Str(n)}} :
                        i \in assistants})

\* Number of toolResult messages whose toolName is n.
ResultsOf(n) ==
  Cardinality({i \in DOMAIN messages :
                 /\ Prop(messages[i], "role") = Str(Said.toolResult)
                 /\ Prop(messages[i], "toolName") = Str(n)})

\* C28: for every message list and tool name n, toolUsage[n] is the number
\* of toolCall blocks named n in assistant messages plus the number of
\* toolResult messages whose toolName is n, and n is absent from toolUsage
\* when that sum is 0.
C28_ToolUsageBothSides ==
  analysis.made =>
    \A n \in ToolNamePool :
      IF CallsOf(n) + ResultsOf(n) = 0
      THEN n \notin DOMAIN analysis.toolUsage
      ELSE /\ n \in DOMAIN analysis.toolUsage
           /\ analysis.toolUsage[n] = CallsOf(n) + ResultsOf(n)

\* C28, for names that are not empty: for every message list and non-empty
\* tool name n, toolUsage[n] is the number of toolCall blocks named n in
\* assistant messages plus the number of toolResult messages whose toolName
\* is n, and n is absent when that sum is 0; under the empty name only the
\* toolCall blocks are counted.
C28_ToolUsageNamed ==
  analysis.made =>
    \A n \in ToolNamePool :
      LET sum == CallsOf(n) + (IF n = <<>> THEN 0 ELSE ResultsOf(n))
      IN IF sum = 0
         THEN n \notin DOMAIN analysis.toolUsage
         ELSE /\ n \in DOMAIN analysis.toolUsage
              /\ analysis.toolUsage[n] = sum

\* read is called twice and answered once, next to other tools.
C28_Witness ==
  /\ analysis.made
  /\ CallsOf(Said.read) = 2
  /\ ResultsOf(Said.read) = 1
  /\ analysis.toolUsage[Said.read] = 3
  /\ Said.write \in DOMAIN analysis.toolUsage

\* The message whose text decides the intent: the last one with role user
\* and non-empty trimmed text (0 when there is none).
LastUserWithText ==
  LET with == {i \in DOMAIN messages :
                 /\ Prop(messages[i], "role") = Str(Said.user)
                 /\ Trim(extractTextFromMessage(messages[i])) # <<>>}
  IN IF with = {} THEN 0 ELSE CHOOSE i \in with : \A j \in with : j <= i

\* C29: extractLastUserIntent returns the trimmed text of the last message
\* that has role user and non-empty trimmed text, whatever follows it: whole
\* when it has at most 80 characters, else its first 77 characters followed
\* by "...", so never more than 80 characters; undefined when there is no
\* such message.
C29_LastUserIntent ==
  analysis.made =>
    IF LastUserWithText = 0 THEN analysis.lastUserIntent = Undef
    ELSE LET text == Trim(extractTextFromMessage(messages[LastUserWithText]))
         IN /\ IsString(analysis.lastUserIntent)
            /\ Len(analysis.lastUserIntent.s) <= 80
            /\ IF Len(text) <= 80
               THEN analysis.lastUserIntent.s = text
               ELSE /\ SubSeq(analysis.lastUserIntent.s, 1, 77) = SubSeq(text, 1, 77)
                    /\ SubSeq(analysis.lastUserIntent.s, 78, 80) = <<".", ".", ".">>
                    /\ Len(analysis.lastUserIntent.s) = 80

\* A long request, cut, with a blank user message and others after it.
C29_Witness ==
  /\ analysis.made
  /\ Len(messages) = 3
  /\ LastUserWithText = 1
  /\ Len(Trim(extractTextFromMessage(messages[1]))) > 80
  /\ Prop(messages[2], "role") = Str(Said.user)
  /\ Prop(messages[3], "role") # Str(Said.user)
  /\ Len(analysis.lastUserIntent.s) = 80


\* C30: in every pushed toolcall_end event whose toolCall is one of the
\* blocks of its partial (the same object), the arguments of the pushed
\* toolCall are structurally equal to the arguments of that block in the
\* pushed partial.
C30_ToolCallMatchesPartial ==
  \A i \in DOMAIN output :
    (/\ i \in DOMAIN received
     /\ received[i].type = "toolcall_end"
     /\ output[i].type = "toolcall_end"
     /\ received[i].partial # NoMessage
     /\ received[i].toolCall # NoBlock
     /\ SameBlockIndex(received[i]) # 0)
      => StructEq(output[i].toolCall.arguments,
                  output[i].partial.content[SameBlockIndex(received[i])].arguments)

====
